---- MODULE Spec2Model ----
(***************************************************************************)
(* A model of litert::CompiledModel                                        *)
(* (tensorflow/lite/experimental/litert/cc/litert_compiled_model.{h,cc}):  *)
(* the per-signature runner cache, the negotiation of tensor buffer        *)
(* requirements with the ExternalLiteRtBufferContext, and the wiring of    *)
(* the caller's TensorBuffers into a SignatureRunner by Invoke.            *)
(*                                                                         *)
(* The interpreter, the buffer context and TensorBuffer are collaborators  *)
(* whose code is outside the modelled sources; they are modelled by their  *)
(* interface: every status the code tests is an input of the step.         *)
(***************************************************************************)
EXTENDS Integers, Sequences, FiniteSets, TLC

\* ------------------------------------------------------------ status codes
kLiteRtStatusOk == "kLiteRtStatusOk"
kLiteRtStatusErrorNotFound == "kLiteRtStatusErrorNotFound"
kLiteRtStatusErrorRuntimeFailure == "kLiteRtStatusErrorRuntimeFailure"
kLiteRtStatusErrorFileIO == "kLiteRtStatusErrorFileIO"
\* Kinds of error the callees report that CompiledModel itself never names.
kLiteRtStatusErrorMemoryAllocationFailure == "kLiteRtStatusErrorMemoryAllocationFailure"
kLiteRtStatusErrorUnsupported == "kLiteRtStatusErrorUnsupported"
\* Not a status: the process was ended by Expected::Value() on an error.
Aborted == "aborted"

\* ------------------------------------------------------------ buffer types
kLiteRtTensorBufferTypeHostMemory == "HostMemory"
kLiteRtTensorBufferTypeAhwb == "Ahwb"

\* The key CompiledModel uses when the model defines no signature.
kDefaultSignatureKey == "main"

\* The null SignatureRunner* / the null signature key handed to the interpreter.
nullptr == "nullptr"

\* ------------------------------------------------------------------ bounds
\* Longest buffer list a caller hands to Invoke (the declared counts are 1, 2).
MaxArgs == 3
\* Requirement objects CompiledModel may create before the model stops creating.
MaxReqs == 3
MaxStale == 2

\* ------------------------------------------------------- the loaded graphs
\* "simple" is the test's simple_model.tflite: no signature, two inputs added
\* element-wise.  "signed" defines two signatures of one input and one output.
Graphs == {"simple", "signed"}

\* interp_->signature_keys()
EngineSignatureKeys(g) == IF g = "simple" THEN <<>> ELSE <<"s1", "s2">>

\* runner->input_names() / runner->output_names()
input_names(r) ==
    CASE r = "placeholder" -> <<"arg0", "arg1">>
      [] r = "s1" -> <<"x">>
      [] r = "s2" -> <<"u">>
      [] OTHER -> <<>>

output_names(r) ==
    CASE r = "placeholder" -> <<"tfl.add">>
      [] r = "s1" -> <<"y">>
      [] r = "s2" -> <<"v">>
      [] OTHER -> <<>>

Range(s) == {s[k] : k \in 1..Len(s)}

Runners == {"placeholder", "s1", "s2"}

\* A TfLiteTensor* is identified by its name: the graphs share no name.
Tensors == UNION {Range(input_names(r)) \cup Range(output_names(r)) : r \in Runners}

\* Elements of a tensor (float[2] in the test) and the bytes of a float.
NumElements == 2
BytesPerElement == 4

\* tensor->bytes
TensorBytes(t) == NumElements * BytesPerElement

\* interp_->GetSignatureRunner(key): the placeholder runner of a graph without
\* signatures, the first signature of a graph with signatures for a null key,
\* the named runner for a key of the graph, null for any other key.
EngineGetSignatureRunner(g, key) ==
    IF key = nullptr
    THEN (IF EngineSignatureKeys(g) = <<>> THEN "placeholder" ELSE EngineSignatureKeys(g)[1])
    ELSE IF key \in Range(EngineSignatureKeys(g)) THEN key ELSE nullptr

\* ----------------------------------------------------- the caller's buffers
Buffers == {"h1", "h2", "h3", "h4", "hs", "a1", "a2"}

\* TensorBuffer::BufferType()
BufferType(b) ==
    IF b \in {"a1", "a2"} THEN kLiteRtTensorBufferTypeAhwb
    ELSE kLiteRtTensorBufferTypeHostMemory

\* TensorBuffer::Size(): hs is a host-memory buffer of one element that the
\* caller made itself, every other buffer has the size of a tensor.
BufferSize(b) == IF b = "hs" THEN BytesPerElement ELSE NumElements * BytesPerElement

\* The buffers a caller passes as inputs and as outputs.
InputBuffers == {"h1", "a1"}
OutputBuffers == {"h3", "a2"}

\* A buffer holds NumElements numbers.
ZeroData == [k \in 1..NumElements |-> 0]
kTestInput0Tensor == <<1, 2>>
kTestInput1Tensor == <<10, 20>>
kTestOutputTensor == <<11, 22>>
InputData == {kTestInput0Tensor, kTestInput1Tensor}

\* The test's buffers: those CreateInputBuffers and CreateOutputBuffers return
\* for simple_model.tflite, host memory of the tensors' size.
TestInputBuffers == {"h1", "h2"}
TestOutputBuffers == {"h3"}

\* The keys a caller names.
Keys == {kDefaultSignatureKey, "s2"}

SeqsUpTo(S, n) == UNION {[1..k -> S] : k \in 0..n}

\* The one thread of a sequential caller.
Threads == {1}

VARIABLES
    graph,                      \* the graph fb_model_ / interp_ were built from
    signature_keys_,            \* the keys GetSignatures returns
    buffer_requirements,        \* buffer_context_: tensor -> declared requirement
    registered_tensor_buffers,  \* buffer_context_: tensor -> registered duplicate
    signature_runners_,         \* key -> SignatureRunner* (nullptr included)
    dangling_keys,              \* key -> the number of entries of signature_runners_ stored
                                \* under a view of it into memory the caller has released
    cpu_buffer_requirements_,   \* tensor -> synthesized requirement
    nextReq,                    \* identity of the next requirement object created
    custom_allocation,          \* runner state: tensor -> TfLiteCustomAllocation
    mem,                        \* storage of each caller buffer
    locked,                     \* buffer -> holder of its mapped view ("" if none)
    written,                    \* buffer -> the data the caller last copied into it
    call,                       \* thread -> the Invoke it is executing
    observed,                   \* tensor -> the first requirement returned for it
    ret,                        \* the last value an operation returned
    asked,                      \* the tensors the last operation asked the context about
    cause,                      \* the first error the last operation met in a callee
    names_seen,                 \* <<direction, key>> -> the first name list returned
    repeated                    \* ret is from a successful CreateInputBuffers or
                                \* CreateOutputBuffers that followed another of the same
                                \* operation and key

vars == <<graph, signature_keys_, buffer_requirements, registered_tensor_buffers, signature_runners_, dangling_keys,
          cpu_buffer_requirements_, nextReq, custom_allocation, mem, locked, written,
          call, observed, ret, asked, cause, names_seen, repeated>>

modelVars == <<graph, signature_keys_, buffer_requirements>>
cacheVars == <<cpu_buffer_requirements_, nextReq>>
wireVars == <<registered_tensor_buffers, custom_allocation>>
bufVars == <<mem, locked, written>>
retVars == <<observed, ret, asked, cause, names_seen, repeated>>

\* ------------------------------------------------------------ small helpers
EmptyMap == [x \in {} |-> x]

Put(m, k, v) == [x \in DOMAIN m \cup {k} |-> IF x = k THEN v ELSE m[x]]

\* litert::Unexpected(status, message) and a valueless litert::Expected<void>.
Unexpected(status, msg) == [status |-> status, msg |-> msg]

ExpectedVoid == [status |-> kLiteRtStatusOk, msg |-> ""]

\* runner->input_tensor(name) / runner->output_tensor(name): null for a name the
\* runner does not have in that direction.
input_tensor(r, name) == IF name \in Range(input_names(r)) THEN name ELSE nullptr

output_tensor(r, name) == IF name \in Range(output_names(r)) THEN name ELSE nullptr

\* The tensors of the signatures of a graph.
GraphRunners(g) == IF g = "simple" THEN {"placeholder"} ELSE Range(EngineSignatureKeys(g))

GraphTensors(g) ==
    UNION {Range(input_names(r)) \cup Range(output_names(r)) : r \in GraphRunners(g)}

GraphInputTensors(g) == UNION {Range(input_names(r)) : r \in GraphRunners(g)}

\* A requirement a dispatch delegate declared for a tensor when it was applied:
\* an accelerator type first, a padded size.
DeclaredRequirement(t) ==
    [types |-> <<kLiteRtTensorBufferTypeAhwb, kLiteRtTensorBufferTypeHostMemory>>,
     size |-> 2 * TensorBytes(t), obj |-> 0]

\* What buffer_context_ holds after construction: nothing (CreateFromTflFile),
\* or the requirements of the tensors the delegate took (all, or the inputs).
DeclaredAfterCreate(g) ==
    {[t \in S |-> DeclaredRequirement(t)] : S \in {{}, GraphInputTensors(g), GraphTensors(g)}}

\* -------------------------------------------------------------- call state
IdleCall ==
    [pc |-> "idle", key |-> "", ins |-> <<>>, outs |-> <<>>, runner |-> nullptr,
     i |-> 0, result |-> ExpectedVoid,
     \* history of the call, for the properties: mapped views taken, tensors
     \* given a custom allocation, tensors registered, AllocateTensors and
     \* Invoke calls made on the runner with their outcomes ("ok", "failed"),
     \* the buffers' storage at entry; the buffer whose mapped view the call
     \* holds.
     view |-> "", nins |-> 0, nouts |-> 0, locks |-> 0, installs |-> {}, regs |-> {},
     allocs |-> 0, allocated |-> "", execs |-> 0, executed |-> "",
     mem0 |-> [b \in Buffers |-> ZeroData]]

NoRet == [op |-> "", key |-> "", name |-> "", status |-> kLiteRtStatusOk, msg |-> "", val |-> <<>>]

\* ------------------------------------------------ CompiledModel::Initialize
\* What a model file holds: nothing readable, bytes that are no model, a model
\* with no signature whose interpreter cannot be built (an operator the
\* resolver lacks), or one of the graphs.
Files == {"missing", "malformed", "unbuildable"} \cup Graphs

\* tflite::InterpreterBuilder(*fb_model_, resolver)(&interp_)
InterpreterBuilder(file) == IF file \in Graphs THEN file ELSE nullptr

\* signature_keys_ after Initialize (lines 47-67): untouched when the
\* interpreter was not built, the default key when the interpreter has no
\* signature key, else the interpreter's keys in their order.
Initialize(file) ==
    IF InterpreterBuilder(file) = nullptr THEN <<>>
    ELSE IF EngineSignatureKeys(file) = <<>> THEN <<kDefaultSignatureKey>>
    ELSE EngineSignatureKeys(file)

Init ==
    /\ graph \in Graphs
    /\ signature_keys_ = Initialize(graph)
    /\ buffer_requirements \in DeclaredAfterCreate(graph)
    /\ registered_tensor_buffers = EmptyMap
    /\ signature_runners_ = EmptyMap
    /\ dangling_keys = EmptyMap
    /\ cpu_buffer_requirements_ = EmptyMap
    /\ nextReq = 1
    /\ custom_allocation = EmptyMap
    /\ mem = [b \in Buffers |-> IF b \in InputBuffers THEN kTestInput0Tensor ELSE ZeroData]
    /\ locked = [b \in Buffers |-> ""]
    /\ written = mem
    /\ call = [t \in Threads |-> IdleCall]
    /\ observed = EmptyMap
    /\ asked = {}
    /\ cause = ExpectedVoid
    /\ names_seen = EmptyMap
    /\ repeated = FALSE
    /\ ret = NoRet

\* ------------------------------------------------- CompiledModel::GetSignatureRunner
\* Variant: the interpreter is asked for the runner named by the key.
GetSignatureRunner_ByName(key) ==
    IF key \in DOMAIN signature_runners_
    THEN signature_runners_[key]
    ELSE EngineGetSignatureRunner(graph, key)

\* The runner the call returns.
GetSignatureRunner(key) ==
    IF key \in DOMAIN signature_runners_
    THEN signature_runners_[key]
    ELSE EngineGetSignatureRunner(graph, IF key = kDefaultSignatureKey THEN nullptr ELSE key)

\* signature_runners_ after the call: whatever the interpreter returned is stored.
RunnersAfter(key) ==
    IF key \in DOMAIN signature_runners_
    THEN signature_runners_
    ELSE Put(signature_runners_, key, GetSignatureRunner(key))

\* The process runs until Expected::Value() ends it; the operations of the
\* model are called one at a time by a caller that is not inside Invoke.
Alive == ret.status # Aborted

Callable == Alive /\ \A t \in Threads : call[t].pc = "idle"

\* ---------------------------- CompiledModel::GetInput/OutputBufferRequirements
\* The tensor names a caller asks about: an input and an output of each graph's
\* default entry point, and a name no entry point has.
Names == {"arg0", "tfl.add", "x", "y", "none"}

\* A value an operation returns: status, message and, on success, the value.
Returned(op, key, name, status, msg, val) ==
    [op |-> op, key |-> key, name |-> name, status |-> status, msg |-> msg, val |-> val]

\* TensorBufferRequirements::Create({kLiteRtTensorBufferTypeHostMemory},
\* tensor->bytes, {0}): a new requirement object.
CpuBufferRequirements_SizeById(tensor, id) ==
    [types |-> <<kLiteRtTensorBufferTypeHostMemory>>, size |-> TensorBytes(tensor) * id,
     obj |-> id]

CpuBufferRequirements(tensor, id) ==
    [types |-> <<kLiteRtTensorBufferTypeHostMemory>>, size |-> TensorBytes(tensor),
     obj |-> id]

BufferRequirementsOf_NotStored(cpu, next, tensor, createOk) ==
    IF tensor \in DOMAIN buffer_requirements
    THEN [status |-> kLiteRtStatusOk, msg |-> "", val |-> <<buffer_requirements[tensor]>>,
          cpu |-> cpu, next |-> next, asked |-> {tensor}]
    ELSE IF ~createOk
    THEN [status |-> kLiteRtStatusErrorRuntimeFailure,
          msg |-> "Failed to create requirements", val |-> <<>>,
          cpu |-> cpu, next |-> next, asked |-> {tensor}]
    ELSE [status |-> kLiteRtStatusOk, msg |-> "",
          val |-> <<CpuBufferRequirements(tensor, next)>>,
          cpu |-> cpu, next |-> next + 1, asked |-> {tensor}]

\* Variant: the requirements stored by the model are looked at first.
BufferRequirementsOf_CacheFirst(cpu, next, tensor, createOk) ==
    IF tensor \in DOMAIN cpu
    THEN [status |-> kLiteRtStatusOk, msg |-> "", val |-> <<cpu[tensor]>>,
          cpu |-> cpu, next |-> next, asked |-> {}]
    ELSE IF tensor \in DOMAIN buffer_requirements
    THEN [status |-> kLiteRtStatusOk, msg |-> "", val |-> <<buffer_requirements[tensor]>>,
          cpu |-> cpu, next |-> next, asked |-> {tensor}]
    ELSE IF ~createOk
    THEN [status |-> kLiteRtStatusErrorRuntimeFailure,
          msg |-> "Failed to create requirements", val |-> <<>>,
          cpu |-> cpu, next |-> next, asked |-> {tensor}]
    ELSE [status |-> kLiteRtStatusOk, msg |-> "",
          val |-> <<CpuBufferRequirements(tensor, next)>>,
          cpu |-> Put(cpu, tensor, CpuBufferRequirements(tensor, next)),
          next |-> next + 1, asked |-> {tensor}]

\* Lines 171-183 (200-212): what the context declared is returned; otherwise
\* a host-memory requirement is created, stored under the tensor and a pointer
\* to the stored object returned.  `cpu` and `next` are the cache and the
\* identity of the next object; the result carries the new ones
\* and the tensors the context was asked about.
BufferRequirementsOf(cpu, next, tensor, createOk) ==
    IF tensor \in DOMAIN buffer_requirements
    THEN [status |-> kLiteRtStatusOk, msg |-> "", val |-> <<buffer_requirements[tensor]>>,
          cpu |-> cpu, next |-> next, asked |-> {tensor}]
    ELSE IF ~createOk
    THEN [status |-> kLiteRtStatusErrorRuntimeFailure,
          msg |-> "Failed to create requirements", val |-> <<>>,
          cpu |-> cpu, next |-> next, asked |-> {tensor}]
    ELSE [status |-> kLiteRtStatusOk, msg |-> "",
          val |-> <<CpuBufferRequirements(tensor, next)>>,
          cpu |-> Put(cpu, tensor, CpuBufferRequirements(tensor, next)),
          next |-> next + 1, asked |-> {tensor}]

\* The tensor of a direction ("input", "output") of a runner.
TensorOf(dir, runner, name) ==
    IF dir = "input" THEN input_tensor(runner, name) ELSE output_tensor(runner, name)

\* The whole of GetInputBufferRequirements / GetOutputBufferRequirements as a
\* function of the cache: the two NotFound returns, then lines 171-183.
GetBufferRequirementsOf(cpu, next, dir, key, name, createOk) ==
    LET runner == GetSignatureRunner(key)
        tensor == IF runner = nullptr THEN nullptr ELSE TensorOf(dir, runner, name)
    IN  IF runner = nullptr
        THEN [status |-> kLiteRtStatusErrorNotFound, msg |-> "Failed to get signature runner",
              val |-> <<>>, cpu |-> cpu, next |-> next, asked |-> {}]
        ELSE IF tensor = nullptr
        THEN [status |-> kLiteRtStatusErrorNotFound,
              msg |-> "Failed to get " \o dir \o " tensor",
              val |-> <<>>, cpu |-> cpu, next |-> next, asked |-> {}]
        ELSE BufferRequirementsOf(cpu, next, tensor, createOk)

\* The first successful return for each tensor is kept.
Observe(obs, name, r) ==
    IF r.status = kLiteRtStatusOk /\ name \notin DOMAIN obs THEN Put(obs, name, r.val[1]) ELSE obs

GetBufferRequirements(op, dir, key, name, createOk) ==
    /\ Callable
    /\ LET r == GetBufferRequirementsOf(cpu_buffer_requirements_, nextReq, dir, key, name,
                                        createOk)
       IN  /\ r.next <= MaxReqs + 1
           /\ signature_runners_' = RunnersAfter(key) /\ UNCHANGED dangling_keys
           /\ cpu_buffer_requirements_' = r.cpu
           /\ nextReq' = r.next
           /\ ret' = Returned(op, key, name, r.status, r.msg, r.val)
           /\ observed' = Observe(observed, name, r)
           /\ asked' = r.asked
           /\ cause' = Unexpected(r.status, r.msg)
           /\ repeated' = FALSE
           /\ UNCHANGED names_seen
    /\ UNCHANGED <<modelVars, wireVars, bufVars, call>>

GetInputBufferRequirements(key, name, createOk) ==
    GetBufferRequirements("GetInputBufferRequirements", "input", key, name, createOk)

GetOutputBufferRequirements(key, name, createOk) ==
    GetBufferRequirements("GetOutputBufferRequirements", "output", key, name, createOk)

\* ---------------------------------- CompiledModel::GetInput/OutputTensorType
\* The type of a tensor as the model file gives it: 32-bit floats, a vector of
\* NumElements (the second signature's tensors are a row of a matrix).
RankedTensorType(tensor) ==
    [element_type |-> "kLiteRtElementTypeFloat32",
     dimensions |-> IF tensor \in {"u", "v"} THEN <<1, NumElements>> ELSE <<NumElements>>]

GetTensorTypeOf_NoTensorCheck(dir, key, name, convertOk) ==
    LET runner == GetSignatureRunner(key)
        tensor == IF runner = nullptr THEN nullptr ELSE TensorOf(dir, runner, name)
    IN  IF runner = nullptr
        THEN [status |-> kLiteRtStatusErrorNotFound, msg |-> "Failed to get signature runner",
              val |-> <<>>,
              cause |-> Unexpected(kLiteRtStatusErrorNotFound, "Failed to get signature runner")]
        ELSE IF ~convertOk
        THEN [status |-> Aborted, msg |-> "", val |-> <<>>,
              cause |-> Unexpected(kLiteRtStatusErrorUnsupported,
                                   "Failed to convert tensor type")]
        ELSE [status |-> kLiteRtStatusOk, msg |-> "", val |-> <<RankedTensorType(tensor)>>,
              cause |-> ExpectedVoid]

\* The whole of GetInputTensorType / GetOutputTensorType: the two NotFound
\* returns, then Value() of the conversion, which ends the process when
\* ConvertTensorType reported an error.
GetTensorTypeOf(dir, key, name, convertOk) ==
    LET runner == GetSignatureRunner(key)
        tensor == IF runner = nullptr THEN nullptr ELSE TensorOf(dir, runner, name)
    IN  IF runner = nullptr
        THEN [status |-> kLiteRtStatusErrorNotFound, msg |-> "Failed to get signature runner",
              val |-> <<>>,
              cause |-> Unexpected(kLiteRtStatusErrorNotFound, "Failed to get signature runner")]
        ELSE IF tensor = nullptr
        THEN [status |-> kLiteRtStatusErrorNotFound,
              msg |-> "Failed to get " \o dir \o " tensor", val |-> <<>>,
              cause |-> Unexpected(kLiteRtStatusErrorNotFound,
                                   "Failed to get " \o dir \o " tensor")]
        ELSE IF ~convertOk
        THEN [status |-> Aborted, msg |-> "", val |-> <<>>,
              cause |-> Unexpected(kLiteRtStatusErrorUnsupported,
                                   "Failed to convert tensor type")]
        ELSE [status |-> kLiteRtStatusOk, msg |-> "", val |-> <<RankedTensorType(tensor)>>,
              cause |-> ExpectedVoid]

GetTensorType(op, dir, key, name, convertOk) ==
    /\ Callable
    /\ LET r == GetTensorTypeOf(dir, key, name, convertOk)
       IN  /\ signature_runners_' = RunnersAfter(key) /\ UNCHANGED dangling_keys
           /\ ret' = Returned(op, key, name, r.status, r.msg, r.val)
           /\ asked' = {}
           /\ cause' = r.cause
           /\ repeated' = FALSE
    /\ UNCHANGED <<modelVars, cacheVars, wireVars, bufVars, call, observed, names_seen>>

GetInputTensorType(key, name, convertOk) ==
    GetTensorType("GetInputTensorType", "input", key, name, convertOk)

GetOutputTensorType(key, name, convertOk) ==
    GetTensorType("GetOutputTensorType", "output", key, name, convertOk)

\* ------------------------------------ CompiledModel::CreateInput/OutputBuffers
GetNames_OnFirstLookup(dir, key) ==
    LET runner == GetSignatureRunner(key)
    IN  IF runner = nullptr \/ key \in DOMAIN signature_runners_ THEN <<>>
        ELSE IF dir = "input" THEN input_names(runner) ELSE output_names(runner)

\* GetInputNames / GetOutputNames: no names when the key has no runner.
GetNames(dir, key) ==
    LET runner == GetSignatureRunner(key)
    IN  IF runner = nullptr THEN <<>>
        ELSE IF dir = "input" THEN input_names(runner) ELSE output_names(runner)

\* The first list returned for a direction and key is kept, and whether the
\* list was asked for again.
SeeNames(seen, dir, key, names) ==
    IF <<dir, key>> \in DOMAIN seen
    THEN [seen EXCEPT ![<<dir, key>>].again = TRUE]
    ELSE Put(seen, <<dir, key>>, [names |-> names, again |-> FALSE])

\* Variant: the names are returned and the first of them is given a custom
\* allocation at the first of the caller's buffers.
ReturnNames_Wiring(op, dir, key) ==
    /\ Callable
    /\ signature_runners_' = RunnersAfter(key) /\ UNCHANGED dangling_keys
    /\ ret' = Returned(op, key, "", kLiteRtStatusOk, "", GetNames(dir, key))
    /\ names_seen' = SeeNames(names_seen, dir, key, GetNames(dir, key))
    /\ asked' = {}
    /\ cause' = ExpectedVoid
    /\ repeated' = FALSE
    /\ custom_allocation' =
          IF GetNames(dir, key) = <<>> THEN custom_allocation
          ELSE Put(custom_allocation, GetNames(dir, key)[1],
                   [addr |-> "h1", bytes |-> TensorBytes(GetNames(dir, key)[1]),
                    by |-> 1, cur |-> FALSE])
    /\ UNCHANGED <<modelVars, cacheVars, registered_tensor_buffers, bufVars, call, observed>>

ReturnNames(op, dir, key) ==
    /\ Callable
    /\ signature_runners_' = RunnersAfter(key) /\ UNCHANGED dangling_keys
    /\ ret' = Returned(op, key, "", kLiteRtStatusOk, "", GetNames(dir, key))
    /\ names_seen' = SeeNames(names_seen, dir, key, GetNames(dir, key))
    /\ asked' = {}
    /\ cause' = ExpectedVoid
    /\ repeated' = FALSE
    /\ UNCHANGED <<modelVars, cacheVars, wireVars, bufVars, call, observed>>

GetInputNames(key) == ReturnNames("GetInputNames", "input", key)

\* The entries of signature_runners_ stored under a view of the key that dangles.
Dangling(key) == IF key \in DOMAIN dangling_keys THEN dangling_keys[key] ELSE 0

\* The caller releases or reuses the string a stored key refers to: the map
\* keeps the absl::string_view it was given (header lines 147-150, line 326),
\* so the entry stays in the table with a key that dangles.
ReleaseKey(key) ==
    /\ Callable
    /\ key \in DOMAIN signature_runners_
    /\ Dangling(key) < MaxStale
    /\ signature_runners_' = [k \in DOMAIN signature_runners_ \ {key} |-> signature_runners_[k]]
    /\ dangling_keys' = Put(dangling_keys, key, Dangling(key) + 1)
    /\ UNCHANGED <<modelVars, cacheVars, wireVars, bufVars, call, retVars>>

\* What contains() can do at line 319 when it compares the key with a stored
\* view that dangles: the memory still reads as the key, it reads as something
\* else, or it cannot be read.
DanglingLookups == {"hit", "miss", "crash"}

\* GetInputNames with a key of which the table holds only entries whose view
\* dangles (lines 139-146, 317-328): on a hit the stored runner is used, on a
\* miss the interpreter is asked again and a second entry is stored.
GetInputNamesAfterRelease(key, lookup) ==
    /\ Callable
    /\ key \notin DOMAIN signature_runners_
    /\ Dangling(key) > 0
    /\ lookup \in DanglingLookups
    /\ signature_runners_' = IF lookup = "miss" THEN RunnersAfter(key) ELSE signature_runners_
    /\ ret' = IF lookup = "crash"
              THEN Returned("GetInputNames", key, "", Aborted, "", <<>>)
              ELSE Returned("GetInputNames", key, "", kLiteRtStatusOk, "",
                            GetNames("input", key))
    /\ names_seen' = IF lookup = "crash" THEN names_seen
                     ELSE SeeNames(names_seen, "input", key, GetNames("input", key))
    /\ asked' = {}
    /\ cause' = ExpectedVoid
    /\ repeated' = FALSE
    /\ UNCHANGED <<modelVars, cacheVars, wireVars, bufVars, call, observed, dangling_keys>>

GetOutputNames(key) == ReturnNames("GetOutputNames", "output", key)

CreateManaged_HostMemory(type, tensor_type, size) ==
    [type |-> kLiteRtTensorBufferTypeHostMemory, tensor_type |-> tensor_type, size |-> size]

\* TensorBuffer::CreateManaged(type, tensor_type, size): a new managed buffer.
CreateManaged(type, tensor_type, size) ==
    [type |-> type, tensor_type |-> tensor_type, size |-> size]

\* The error of a failing CreateManaged: a runtime failure ("buffer") or an
\* allocation failure ("memory").
CreateManagedError(failKind) ==
    Unexpected(IF failKind = "memory" THEN kLiteRtStatusErrorMemoryAllocationFailure
                                      ELSE kLiteRtStatusErrorRuntimeFailure,
               "Failed to create buffer")

\* The status CreateInputBuffers / CreateOutputBuffers gives every error of a
\* callee (lines 262-264, 268-270, 276-278).
RewrappedStatus(status) == kLiteRtStatusErrorRuntimeFailure

\* CreateManaged given a size that grows with the objects created so far.
CreateBuffersFrom_SizeByNext(dir, key, names, i, st, failAt, failKind) ==
    [status |-> kLiteRtStatusOk, msg |-> "",
     val |-> [k \in 1..Len(names) |->
                 CreateManaged(kLiteRtTensorBufferTypeHostMemory, RankedTensorType(names[k]),
                               TensorBytes(names[k]) * st.next)],
     cpu |-> st.cpu, next |-> st.next + Len(names), obs |-> st.obs, asked |-> st.asked,
     cause |-> ExpectedVoid]

\* The failure of the loop at a tensor: what is returned, and what the callee
\* reported.
Failed(status, msg, r, obs, nowAsked, callee) ==
    [status |-> status, msg |-> msg, val |-> <<>>, cpu |-> r.cpu, next |-> r.next,
     obs |-> obs, asked |-> nowAsked, cause |-> callee]

\* The loop of CreateInputBuffers / CreateOutputBuffers from name i on.  st is
\* the cache, the next object, the first requirement seen per tensor, the
\* tensors asked about and the buffers made so far; failAt and failKind choose
\* the step that fails in the collaborators (0: none).
RECURSIVE CreateBuffersFrom(_, _, _, _, _, _, _)
CreateBuffersFrom(dir, key, names, i, st, failAt, failKind) ==
    IF i > Len(names)
    THEN [status |-> kLiteRtStatusOk, msg |-> "", val |-> st.bufs,
          cpu |-> st.cpu, next |-> st.next, obs |-> st.obs, asked |-> st.asked,
          cause |-> ExpectedVoid]
    ELSE LET r == GetBufferRequirementsOf(st.cpu, st.next, dir, key, names[i],
                                          ~(failAt = i /\ failKind = "requirements"))
             tensor_type == GetTensorTypeOf(dir, key, names[i],
                                            ~(failAt = i /\ failKind = "type"))
             obs == Observe(st.obs, names[i], r)
             nowAsked == st.asked \cup r.asked
         IN  IF r.status # kLiteRtStatusOk
             THEN Failed(RewrappedStatus(r.status), r.msg, r, obs, nowAsked,
                         Unexpected(r.status, r.msg))
             ELSE IF tensor_type.status = Aborted
             THEN Failed(Aborted, "", r, obs, nowAsked, tensor_type.cause)
             ELSE IF tensor_type.status # kLiteRtStatusOk
             THEN Failed(RewrappedStatus(tensor_type.status), tensor_type.msg, r, obs,
                         nowAsked, tensor_type.cause)
             ELSE IF failAt = i /\ failKind \in {"buffer", "memory"}
             THEN Failed(RewrappedStatus(CreateManagedError(failKind).status),
                         CreateManagedError(failKind).msg, r, obs, nowAsked,
                         CreateManagedError(failKind))
             ELSE CreateBuffersFrom(dir, key, names, i + 1,
                     [cpu |-> r.cpu, next |-> r.next, obs |-> obs, asked |-> nowAsked,
                      bufs |-> Append(st.bufs,
                                      CreateManaged(r.val[1].types[1], tensor_type.val[1],
                                                    r.val[1].size))],
                     failAt, failKind)

CreateBuffers(op, dir, key, failAt, failKind) ==
    /\ Callable
    /\ LET r == CreateBuffersFrom(dir, key, GetNames(dir, key), 1,
                                  [cpu |-> cpu_buffer_requirements_, next |-> nextReq,
                                   obs |-> observed, asked |-> {}, bufs |-> <<>>],
                                  failAt, failKind)
       IN  /\ r.next <= MaxReqs + 1
           /\ signature_runners_' = RunnersAfter(key) /\ UNCHANGED dangling_keys
           /\ cpu_buffer_requirements_' = r.cpu
           /\ nextReq' = r.next
           /\ ret' = Returned(op, key, "", r.status, r.msg, r.val)
           /\ observed' = r.obs
           /\ asked' = r.asked
           /\ cause' = r.cause
           /\ repeated' = (r.status = kLiteRtStatusOk /\ ret.status = kLiteRtStatusOk
                                /\ ret.op = op /\ ret.key = key)
           /\ UNCHANGED names_seen
    /\ UNCHANGED <<modelVars, wireVars, bufVars, call>>

CreateInputBuffers(key, failAt, failKind) ==
    CreateBuffers("CreateInputBuffers", "input", key, failAt, failKind)

CreateOutputBuffers(key, failAt, failKind) ==
    CreateBuffers("CreateOutputBuffers", "output", key, failAt, failKind)

\* ------------------------------------------------------ CompiledModel::Invoke
\* The call ends with this result; its argument lists are the caller's again.
Finish(c, result) ==
    [c EXCEPT !.pc = "done", !.result = result, !.ins = <<>>, !.outs = <<>>, !.i = 0]

\* Variant: the null runner is not tested.
RunnerMissing_Unchecked(runner) == FALSE

\* The null test on the runner and the error it returns.
RunnerMissing(runner) == runner = nullptr

RunnerNotFound == Unexpected(kLiteRtStatusErrorNotFound, "Failed to get signature runner")

\* The two size checks of Invoke.
InputSizeMismatch(runner, ins) == Len(ins) # Len(input_names(runner))

\* Variant: only a list that is too short is rejected.
OutputSizeMismatch_TooShortOnly(runner, outs) == Len(outs) < Len(output_names(runner))

OutputSizeMismatch(runner, outs) == Len(outs) # Len(output_names(runner))

\* The test that selects the custom-allocation path for an input / an output.
\* Variant: every input is registered, whatever its type.
InputIsHostMemory_Never(buf) == FALSE

InputIsHostMemory(buf) == BufferType(buf) = kLiteRtTensorBufferTypeHostMemory

\* Variant: every output is given a custom allocation, whatever its type.
OutputIsHostMemory_Always(buf) == TRUE

OutputIsHostMemory(buf) == BufferType(buf) = kLiteRtTensorBufferTypeHostMemory

\* The loop conditions: past the last input the outputs are wired, past the
\* last output the tensors are allocated.
Advance_SkipOutputs(c) ==
    IF c.pc = "inputs" /\ c.i > Len(input_names(c.runner))
    THEN [c EXCEPT !.pc = "allocate", !.i = 0]
    ELSE IF c.pc = "outputs" /\ c.i > Len(output_names(c.runner))
    THEN [c EXCEPT !.pc = "allocate", !.i = 0]
    ELSE c

\* The loop at its end goes on to the next phase (lines 347, 372, 397).
Advance(c) ==
    IF c.pc = "inputs" /\ c.i > Len(input_names(c.runner))
    THEN (IF Len(output_names(c.runner)) = 0
          THEN [c EXCEPT !.pc = "allocate", !.i = 0]
          ELSE [c EXCEPT !.pc = "outputs", !.i = 1])
    ELSE IF c.pc = "outputs" /\ c.i > Len(output_names(c.runner))
    THEN [c EXCEPT !.pc = "allocate", !.i = 0]
    ELSE c

\* Once a call of thread t has returned, the wiring it made is of an earlier call.
Outdated(m, t) == [x \in DOMAIN m |-> IF m[x].by = t THEN [m[x] EXCEPT !.cur = FALSE] ELSE m[x]]

\* Lines 333-345: the runner is looked up, then the two list sizes are checked.
InvokeBegin(t, key, ins, outs) ==
    /\ call[t].pc = "idle"
    /\ \A b \in Buffers : locked[b] = ""
    /\ LET runner == GetSignatureRunner(key)
           c == [IdleCall EXCEPT !.key = key, !.ins = ins, !.outs = outs,
                                 !.nins = Len(ins), !.nouts = Len(outs),
                                 !.runner = runner, !.mem0 = mem]
       IN  /\ signature_runners_' = RunnersAfter(key) /\ UNCHANGED dangling_keys
           /\ call' = [call EXCEPT ![t] =
                  IF RunnerMissing(runner)
                  THEN Finish(c, RunnerNotFound)
                  ELSE IF InputSizeMismatch(runner, ins)
                  THEN Finish(c, Unexpected(kLiteRtStatusErrorRuntimeFailure,
                                            "Input buffer size mismatch"))
                  ELSE IF OutputSizeMismatch(runner, outs)
                  THEN Finish(c, Unexpected(kLiteRtStatusErrorRuntimeFailure,
                                            "Output buffer size mismatch"))
                  ELSE Advance([c EXCEPT !.pc = "inputs", !.i = 1])]
    /\ UNCHANGED <<modelVars, cacheVars, wireVars, bufVars, retVars>>

\* Variant: the view of the first buffer of the list is installed for every
\* tensor (the loop index is not used).
SetCustomAllocation_FirstBuffer(m, t, tensor, addr) ==
    Put(m, tensor,
        [addr |-> IF call[t].pc = "inputs" THEN call[t].ins[1] ELSE call[t].outs[1],
         bytes |-> TensorBytes(tensor), by |-> t, cur |-> TRUE])

\* runner->SetCustomAllocationForInputTensor / ...ForOutputTensor: the tensor
\* is given the address and the tensor's byte size.
SetCustomAllocation(m, t, tensor, addr) ==
    Put(m, tensor, [addr |-> addr, bytes |-> TensorBytes(tensor), by |-> t, cur |-> TRUE])

\* buffer_context_->RegisterTensorBuffer(tensor, duplicate) that returned Ok.
RegisterTensorBuffer(m, t, tensor, buf) ==
    Put(m, tensor, [buf |-> buf, by |-> t, cur |-> TRUE])

\* Variant: the status of RegisterTensorBuffer is not tested, the loop goes on.
WireTensor_StatusIgnored(t, tensor, buf, host, registerOk, msg) ==
    LET c == call[t] IN
    IF host
    THEN /\ registerOk
         /\ locked[buf] = ""
         /\ custom_allocation' = SetCustomAllocation(custom_allocation, t, tensor, buf)
         /\ call' = [call EXCEPT ![t] =
                Advance([c EXCEPT !.i = c.i + 1, !.locks = c.locks + 1,
                                  !.installs = c.installs \cup {tensor}])]
         /\ UNCHANGED registered_tensor_buffers
    ELSE IF registerOk
    THEN /\ registered_tensor_buffers' =
                RegisterTensorBuffer(registered_tensor_buffers, t, tensor, buf)
         /\ call' = [call EXCEPT ![t] =
                Advance([c EXCEPT !.i = c.i + 1, !.regs = c.regs \cup {tensor}])]
         /\ UNCHANGED custom_allocation
    ELSE /\ call' = [call EXCEPT ![t] =
                Advance([c EXCEPT !.i = c.i + 1,
                                  !.result = Unexpected(kLiteRtStatusErrorRuntimeFailure, msg)])]
         /\ UNCHANGED <<custom_allocation, registered_tensor_buffers>>

\* One turn of a wiring loop for `tensor` and the caller's buffer `buf`:
\* host memory is mapped (a scoped lock, released at the end of the branch)
\* and installed as a custom allocation, any other buffer is duplicated and
\* the duplicate registered; a failed registration ends the call.
WireTensor(t, tensor, buf, host, registerOk, msg) ==
    LET c == call[t] IN
    IF host
    THEN /\ registerOk
         /\ locked[buf] = ""
         /\ custom_allocation' = SetCustomAllocation(custom_allocation, t, tensor, buf)
         /\ call' = [call EXCEPT ![t] =
                Advance([c EXCEPT !.i = c.i + 1, !.locks = c.locks + 1,
                                  !.installs = c.installs \cup {tensor}])]
         /\ UNCHANGED registered_tensor_buffers
    ELSE IF registerOk
    THEN /\ registered_tensor_buffers' =
                RegisterTensorBuffer(registered_tensor_buffers, t, tensor, buf)
         /\ call' = [call EXCEPT ![t] =
                Advance([c EXCEPT !.i = c.i + 1, !.regs = c.regs \cup {tensor}])]
         /\ UNCHANGED custom_allocation
    ELSE /\ call' = [call EXCEPT ![t] =
                Finish(c, Unexpected(kLiteRtStatusErrorRuntimeFailure, msg))]
         /\ UNCHANGED <<custom_allocation, registered_tensor_buffers>>

\* Lines 347-370.
WireInput(t, registerOk) ==
    /\ call[t].pc = "inputs"
    /\ LET c == call[t]
           input_name == input_names(c.runner)[c.i]
       IN  WireTensor(t, input_tensor(c.runner, input_name), c.ins[c.i],
                      InputIsHostMemory(c.ins[c.i]), registerOk,
                      "Failed to register input tensor buffer")
    /\ UNCHANGED <<modelVars, cacheVars, bufVars, signature_runners_, dangling_keys, retVars>>

\* Lines 372-395.
WireOutput(t, registerOk) ==
    /\ call[t].pc = "outputs"
    /\ LET c == call[t]
           output_name == output_names(c.runner)[c.i]
       IN  WireTensor(t, output_tensor(c.runner, output_name), c.outs[c.i],
                      OutputIsHostMemory(c.outs[c.i]), registerOk,
                      "Failed to register output tensor buffer")
    /\ UNCHANGED <<modelVars, cacheVars, bufVars, signature_runners_, dangling_keys, retVars>>

\* ---- the host-memory branch of a wiring loop, step by step
\* The buffer the loop is at, when it is host memory.
HostBufferAt(c) ==
    IF c.pc = "inputs" /\ InputIsHostMemory(c.ins[c.i]) THEN c.ins[c.i]
    ELSE IF c.pc = "outputs" /\ OutputIsHostMemory(c.outs[c.i]) THEN c.outs[c.i]
    ELSE ""

\* The tensor the loop is at.
TensorAt(c) ==
    IF c.pc = "inputs" THEN input_tensor(c.runner, input_names(c.runner)[c.i])
    ELSE output_tensor(c.runner, output_names(c.runner)[c.i])

\* TensorBufferScopedLock::Create(buffer) at lines 353-354 and 378-379: the
\* buffer is locked and its address held by lock_and_addr.
MapBuffer(t) ==
    /\ call[t].pc \in {"inputs", "outputs"}
    /\ call[t].view = ""
    /\ HostBufferAt(call[t]) # ""
    /\ locked[HostBufferAt(call[t])] = ""
    /\ locked' = [locked EXCEPT ![HostBufferAt(call[t])] = "Invoke"]
    /\ call' = [call EXCEPT ![t].view = HostBufferAt(call[t]), ![t].locks = call[t].locks + 1]
    /\ UNCHANGED <<modelVars, cacheVars, wireVars, mem, written, signature_runners_,
                   dangling_keys, retVars>>

\* Variant: the lock outlives the branch.
ScopeExit_NoUnlock(lk, buf) == lk

\* The end of the branch at lines 359 and 384: lock_and_addr goes out of
\* scope and its destructor unlocks the buffer.
ScopeExit(lk, buf) == [lk EXCEPT ![buf] = ""]

\* Variant: the address is installed and the buffer stays locked.
InstallView_HoldsLock(t) ==
    /\ call[t].pc \in {"inputs", "outputs"}
    /\ call[t].view # ""
    /\ LET c == call[t] IN
       /\ custom_allocation' =
              SetCustomAllocation(custom_allocation, t, TensorAt(c), c.view)
       /\ UNCHANGED locked
       /\ call' = [call EXCEPT ![t] =
              Advance([c EXCEPT !.i = c.i + 1, !.view = "",
                                !.installs = c.installs \cup {TensorAt(c)}])]
    /\ UNCHANGED <<modelVars, cacheVars, registered_tensor_buffers, mem, written,
                   signature_runners_, dangling_keys, retVars>>

\* Lines 355-359 and 380-384: the mapped address is installed as the
\* tensor's custom allocation, and the branch ends.
InstallView(t) ==
    /\ call[t].pc \in {"inputs", "outputs"}
    /\ call[t].view # ""
    /\ LET c == call[t] IN
       /\ custom_allocation' =
              SetCustomAllocation(custom_allocation, t, TensorAt(c), c.view)
       /\ locked' = ScopeExit(locked, c.view)
       /\ call' = [call EXCEPT ![t] =
              Advance([c EXCEPT !.i = c.i + 1, !.view = "",
                                !.installs = c.installs \cup {TensorAt(c)}])]
    /\ UNCHANGED <<modelVars, cacheVars, registered_tensor_buffers, mem, written,
                   signature_runners_, dangling_keys, retVars>>

\* What reading lock_and_addr->second can do at lines 355 and 380 when
\* TensorBufferScopedLock::Create returned an error: the process ends, or an
\* address that is no buffer's is read and the loop goes on.
FailedViewOutcomes == {"crash", "garbage"}

\* Lines 353-359 and 378-384 for a buffer that is locked elsewhere: Create
\* fails, its result is not tested and ->second is read from it.
MapBufferFailed(t, outcome) ==
    /\ call[t].pc \in {"inputs", "outputs"}
    /\ call[t].view = ""
    /\ HostBufferAt(call[t]) # ""
    /\ locked[HostBufferAt(call[t])] # ""
    /\ outcome \in FailedViewOutcomes
    /\ LET c == call[t] IN
       IF outcome = "crash"
       THEN /\ call' = [call EXCEPT ![t].pc = "aborted"]
            /\ ret' = Returned("Invoke", c.key, "", Aborted, "", <<>>)
            /\ UNCHANGED custom_allocation
       ELSE /\ custom_allocation' =
                   SetCustomAllocation(custom_allocation, t, TensorAt(c), "garbage")
            /\ call' = [call EXCEPT ![t] =
                   Advance([c EXCEPT !.i = c.i + 1,
                                     !.installs = c.installs \cup {TensorAt(c)}])]
            /\ UNCHANGED ret
    /\ UNCHANGED <<modelVars, cacheVars, registered_tensor_buffers, bufVars,
                   signature_runners_, dangling_keys, observed, asked, cause, names_seen,
                   repeated>>

\* The else branch of a wiring loop alone (lines 360-369 and 385-394).
RegisterInput(t, registerOk) ==
    /\ call[t].pc = "inputs"
    /\ ~InputIsHostMemory(call[t].ins[call[t].i])
    /\ WireInput(t, registerOk)

RegisterOutput(t, registerOk) ==
    /\ call[t].pc = "outputs"
    /\ ~OutputIsHostMemory(call[t].outs[call[t].i])
    /\ WireOutput(t, registerOk)

\* Variant: the status of AllocateTensors is not tested.
AfterAllocateTensors_Unchecked(c, ok) ==
    [c EXCEPT !.pc = "invoke", !.allocs = c.allocs + 1,
              !.allocated = IF ok THEN "ok" ELSE "failed"]

\* Lines 397-400: what follows runner->AllocateTensors().
AfterAllocateTensors(c, ok) ==
    IF ok
    THEN [c EXCEPT !.pc = "invoke", !.allocs = c.allocs + 1, !.allocated = "ok"]
    ELSE Finish([c EXCEPT !.allocs = c.allocs + 1, !.allocated = "failed"],
                Unexpected(kLiteRtStatusErrorRuntimeFailure, "Failed to allocate tensors"))

AllocateTensors(t, ok) ==
    /\ call[t].pc = "allocate"
    /\ call' = [call EXCEPT ![t] = AfterAllocateTensors(call[t], ok)]
    /\ UNCHANGED <<modelVars, cacheVars, wireVars, bufVars, signature_runners_, dangling_keys, retVars>>

\* Variant: the status of runner->Invoke() is not tested.
AfterRunnerInvoke_Unchecked(c, ok) ==
    Finish([c EXCEPT !.execs = c.execs + 1, !.executed = IF ok THEN "ok" ELSE "failed"],
           ExpectedVoid)

\* Lines 402-406: what follows runner->Invoke().
AfterRunnerInvoke(c, ok) ==
    IF ok
    THEN Finish([c EXCEPT !.execs = c.execs + 1, !.executed = "ok"], ExpectedVoid)
    ELSE Finish([c EXCEPT !.execs = c.execs + 1, !.executed = "failed"],
                Unexpected(kLiteRtStatusErrorRuntimeFailure, "Failed to invoke"))

\* The storage the runner uses for a tensor: the buffer registered for it when
\* a delegate consumes the tensor, otherwise the custom allocation set on the
\* runner, otherwise the interpreter's own arena.
Binding(tensor) ==
    IF tensor \in DOMAIN buffer_requirements /\ tensor \in DOMAIN registered_tensor_buffers
    THEN registered_tensor_buffers[tensor].buf
    ELSE IF tensor \in DOMAIN custom_allocation
    THEN custom_allocation[tensor].addr
    ELSE "arena"

\* The data of a tensor as an execution reads it.
TensorData(tensor, arena) == IF Binding(tensor) = "arena" THEN arena ELSE mem[Binding(tensor)]

RECURSIVE AddAll(_, _)
\* The element-wise sum of the inputs, in order.
AddAll(names, arena) ==
    IF names = <<>> THEN ZeroData
    ELSE [k \in 1..NumElements |->
            TensorData(Head(names), arena)[k] + AddAll(Tail(names), arena)[k]]

\* runner->Invoke() that returned kTfLiteOk: every output tensor of the
\* signature holds the element-wise sum of its inputs.
RunnerInvoke(r, arena) ==
    [b \in Buffers |->
        IF \E n \in Range(output_names(r)) : Binding(n) = b
        THEN AddAll(input_names(r), arena)
        ELSE mem[b]]

\* A custom allocation of the runner that is no buffer, or that is declared
\* longer than the buffer at its address.
WildAllocation(r) ==
    \E tensor \in (Range(input_names(r)) \cup Range(output_names(r))) \cap DOMAIN custom_allocation :
        \/ custom_allocation[tensor].addr \notin Buffers
        \/ custom_allocation[tensor].bytes > BufferSize(custom_allocation[tensor].addr)

\* runner->Invoke() with such an allocation reads or writes memory that is not
\* the caller's buffer: the process ends, or the call returns kTfLiteOk with
\* any data in the buffers the outputs are bound to.
ExecuteWild(t, outcome, data) ==
    /\ call[t].pc = "invoke"
    /\ WildAllocation(call[t].runner)
    /\ outcome \in {"crash", "returns"}
    /\ IF outcome = "crash"
       THEN /\ call' = [call EXCEPT ![t].pc = "aborted"]
            /\ ret' = Returned("Invoke", call[t].key, "", Aborted, "", <<>>)
            /\ UNCHANGED mem
       ELSE /\ call' = [call EXCEPT ![t] = AfterRunnerInvoke(call[t], TRUE)]
            /\ mem' = [b \in Buffers |->
                          IF \E n \in Range(output_names(call[t].runner)) : Binding(n) = b
                          THEN data ELSE mem[b]]
            /\ UNCHANGED ret
    /\ UNCHANGED <<modelVars, cacheVars, wireVars, locked, written, signature_runners_,
                   dangling_keys, observed, asked, cause, names_seen, repeated>>

Execute(t, ok, arena) ==
    /\ call[t].pc = "invoke"
    /\ call' = [call EXCEPT ![t] = AfterRunnerInvoke(call[t], ok)]
    /\ mem' = IF ok THEN RunnerInvoke(call[t].runner, arena) ELSE mem
    /\ UNCHANGED <<modelVars, cacheVars, wireVars, locked, written, signature_runners_, dangling_keys, retVars>>

\* runner->Invoke() on allocations that lie in the caller's buffers.
ExecuteInBounds(t, ok, arena) ==
    /\ call[t].pc = "invoke"
    /\ ~WildAllocation(call[t].runner)
    /\ Execute(t, ok, arena)

\* The caller has the result of Invoke.
InvokeReturn(t) ==
    /\ call[t].pc = "done"
    /\ call' = [call EXCEPT ![t] = IdleCall]
    /\ custom_allocation' = Outdated(custom_allocation, t)
    /\ registered_tensor_buffers' = Outdated(registered_tensor_buffers, t)
    /\ UNCHANGED <<modelVars, cacheVars, bufVars, signature_runners_, dangling_keys, retVars>>

\* ------------------------------------------------------------------ caller
\* The test's scoped block: the buffer is locked, filled by memcpy, unlocked.
FillBuffer(b, data) ==
    /\ Callable
    /\ locked[b] = ""
    /\ mem' = [mem EXCEPT ![b] = data]
    /\ written' = [written EXCEPT ![b] = data]
    /\ UNCHANGED <<modelVars, cacheVars, wireVars, locked, signature_runners_, dangling_keys, call, retVars>>

\* Another party locks a buffer, fills it and unlocks it while a call of
\* Invoke is between its entry and its return.
ConcurrentFill(b, data) ==
    /\ Alive
    /\ \E t \in Threads : call[t].pc \notin {"idle", "done"}
    /\ locked[b] = ""
    /\ mem' = [mem EXCEPT ![b] = data]
    /\ written' = [written EXCEPT ![b] = data]
    /\ UNCHANGED <<modelVars, cacheVars, wireVars, locked, signature_runners_, dangling_keys,
                   call, retVars>>

\* Another party takes the lock of a buffer while a call of Invoke is between
\* its entry and its return, and gives it back.
ConcurrentLock(b) ==
    /\ Alive
    /\ \E t \in Threads : call[t].pc \in {"inputs", "outputs"}
    /\ locked[b] = ""
    /\ locked' = [locked EXCEPT ![b] = "other"]
    /\ UNCHANGED <<modelVars, cacheVars, wireVars, mem, written, signature_runners_,
                   dangling_keys, call, retVars>>

ConcurrentUnlock(b) ==
    /\ Alive
    /\ locked[b] = "other"
    /\ locked' = [locked EXCEPT ![b] = ""]
    /\ UNCHANGED <<modelVars, cacheVars, wireVars, mem, written, signature_runners_,
                   dangling_keys, call, retVars>>

ArenaData == InputData \cup {ZeroData}

InvokeSteps ==
    \/ \E t \in Threads, registerOk \in BOOLEAN : WireInput(t, registerOk)
    \/ \E t \in Threads, registerOk \in BOOLEAN : WireOutput(t, registerOk)
    \/ \E t \in Threads, ok \in BOOLEAN : AllocateTensors(t, ok)
    \/ \E t \in Threads, ok \in BOOLEAN, arena \in ArenaData : Execute(t, ok, arena)
    \/ \E t \in Threads : InvokeReturn(t)

Next ==
    \/ \E t \in Threads, key \in Keys, ins \in SeqsUpTo(InputBuffers, MaxArgs),
          outs \in SeqsUpTo(OutputBuffers, MaxArgs - 1) : InvokeBegin(t, key, ins, outs)
    \/ InvokeSteps

Spec == Init /\ [][Next]_vars

\* The test's use of the model: simple_model.tflite, the buffers filled through
\* their mapped views between the calls, Invoke on the default key with lists
\* of the test's buffers.
InitData == Init /\ graph = "simple"

NextData ==
    \/ \E t \in Threads, ins \in SeqsUpTo(TestInputBuffers, MaxArgs - 1),
          outs \in SeqsUpTo(TestOutputBuffers, MaxArgs - 2) :
            InvokeBegin(t, kDefaultSignatureKey, ins, outs)
    \/ InvokeSteps
    \/ \E b \in TestInputBuffers, data \in InputData : FillBuffer(b, data)

SpecData == InitData /\ [][NextData]_vars

\* The negotiation of requirements, between calls of Invoke.
NextReq ==
    \/ \E key \in Keys, name \in Names, createOk \in BOOLEAN :
            GetInputBufferRequirements(key, name, createOk)
    \/ \E key \in Keys, name \in Names, createOk \in BOOLEAN :
            GetOutputBufferRequirements(key, name, createOk)
    \/ \E key \in Keys, failAt \in 0..(MaxArgs - 1), failKind \in {"requirements", "buffer"} :
            CreateInputBuffers(key, failAt, failKind)
    \/ \E key \in Keys, failAt \in 0..(MaxArgs - 1), failKind \in {"requirements", "buffer"} :
            CreateOutputBuffers(key, failAt, failKind)
    \/ \E t \in Threads, ins \in SeqsUpTo({"h1"}, MaxArgs - 1) :
            InvokeBegin(t, kDefaultSignatureKey, ins, <<"h3">>)
    \/ \E t \in Threads : WireInput(t, TRUE)
    \/ \E t \in Threads : WireOutput(t, TRUE)
    \/ \E t \in Threads, ok \in BOOLEAN : AllocateTensors(t, ok)
    \/ \E t \in Threads : Execute(t, TRUE, ZeroData)
    \/ \E t \in Threads : InvokeReturn(t)

SpecReq == Init /\ [][NextReq]_vars

\* The ways a step of CreateInputBuffers / CreateOutputBuffers fails.
FailKinds == {"requirements", "type", "buffer", "memory"}

\* The queries about single tensors, in any order.
NextApi ==
    \/ \E key \in Keys, name \in Names, createOk \in BOOLEAN :
            GetInputBufferRequirements(key, name, createOk)
    \/ \E key \in Keys, name \in Names, createOk \in BOOLEAN :
            GetOutputBufferRequirements(key, name, createOk)
    \/ \E key \in Keys, name \in Names, convertOk \in BOOLEAN :
            GetInputTensorType(key, name, convertOk)
    \/ \E key \in Keys, name \in Names, convertOk \in BOOLEAN :
            GetOutputTensorType(key, name, convertOk)

SpecApi == Init /\ [][NextApi]_vars

\* The creation of the buffer lists, with every failure of a callee.
NextCreate ==
    \/ \E key \in Keys, failAt \in 0..(MaxArgs - 1), failKind \in FailKinds :
            CreateInputBuffers(key, failAt, failKind)
    \/ \E key \in Keys, failAt \in 0..(MaxArgs - 1), failKind \in FailKinds :
            CreateOutputBuffers(key, failAt, failKind)

SpecCreate == Init /\ [][NextCreate]_vars

\* The name lists, asked for between the other operations.
NextNames ==
    \/ \E key \in Keys : GetInputNames(key)
    \/ GetOutputNames(kDefaultSignatureKey)
    \/ CreateOutputBuffers(kDefaultSignatureKey, 0, "buffer")
    \/ \E t \in Threads, ins \in SeqsUpTo({"h1"}, MaxArgs - 1) :
            InvokeBegin(t, kDefaultSignatureKey, ins, <<"h3">>)
    \/ \E t \in Threads : WireInput(t, TRUE)
    \/ \E t \in Threads : WireOutput(t, TRUE)
    \/ \E t \in Threads : AllocateTensors(t, TRUE)
    \/ \E t \in Threads, ok \in BOOLEAN : Execute(t, ok, ZeroData)
    \/ \E t \in Threads : InvokeReturn(t)

SpecNames == Init /\ [][NextNames]_vars

\* -------------------------------------------- CompiledModel::CreateFromTflFile
\* tflite::GetAllocationFromFile: no allocation or an invalid one for a file
\* that cannot be read.
GetAllocationFromFile(file) == IF file = "missing" THEN {nullptr, "invalid"} ELSE {"valid"}

\* tflite::FlatBufferModel::BuildFromBuffer(alloc->base(), alloc->bytes())
BuildFromBuffer(file, alloc) ==
    IF alloc = "invalid" \/ file = "malformed" THEN nullptr ELSE file

\* Before the factory is called there is no CompiledModel.
InitFactory ==
    /\ graph = "none"
    /\ signature_keys_ = <<>>
    /\ buffer_requirements = EmptyMap
    /\ registered_tensor_buffers = EmptyMap
    /\ signature_runners_ = EmptyMap
    /\ dangling_keys = EmptyMap
    /\ cpu_buffer_requirements_ = EmptyMap
    /\ nextReq = 1
    /\ custom_allocation = EmptyMap
    /\ mem = [b \in Buffers |-> ZeroData]
    /\ locked = [b \in Buffers |-> ""]
    /\ written = mem
    /\ call = [t \in Threads |-> IdleCall]
    /\ observed = EmptyMap
    /\ asked = {}
    /\ cause = ExpectedVoid
    /\ names_seen = EmptyMap
    /\ repeated = FALSE
    /\ ret = NoRet

CreateFromTflFile_ModelUnchecked(file, alloc) ==
    /\ graph = "none"
    /\ ret.op = ""
    /\ alloc \in GetAllocationFromFile(file)
    /\ IF alloc = nullptr
       THEN /\ ret' = Returned("CreateFromTflFile", "", file, kLiteRtStatusErrorFileIO, "",
                               <<>>)
            /\ UNCHANGED <<graph, signature_keys_>>
       ELSE /\ ret' = Returned("CreateFromTflFile", "", file, kLiteRtStatusOk, "",
                               <<"runtime">>)
            /\ graph' = file
            /\ signature_keys_' = Initialize(file)
    /\ UNCHANGED <<buffer_requirements, signature_runners_, dangling_keys, cacheVars, wireVars, bufVars,
                   call, observed, asked, cause, names_seen, repeated>>

\* The value the factory returns, and the CompiledModel it made (lines 72-93).
\* The status Initialize() returns is not looked at.
CreateFromTflFile(file, alloc) ==
    /\ graph = "none"
    /\ ret.op = ""
    /\ alloc \in GetAllocationFromFile(file)
    /\ IF alloc = nullptr \/ BuildFromBuffer(file, alloc) = nullptr
       THEN /\ ret' = Returned("CreateFromTflFile", "", file, kLiteRtStatusErrorFileIO, "",
                               <<>>)
            /\ UNCHANGED <<graph, signature_keys_>>
       ELSE /\ ret' = Returned("CreateFromTflFile", "", file, kLiteRtStatusOk, "",
                               <<"runtime">>)
            /\ graph' = file
            /\ signature_keys_' = Initialize(file)
    /\ UNCHANGED <<buffer_requirements, signature_runners_, dangling_keys, cacheVars, wireVars, bufVars,
                   call, observed, asked, cause, names_seen, repeated>>

\* A status of the interpreter other than kTfLiteOk.
kTfLiteError == "kTfLiteError"

\* What the call through the null interp_ at line 131 can do when Initialize
\* did not build the interpreter: end the process, or return a status that
\* reads as a failure or as kTfLiteOk.
NullInterpreterOutcomes == {"crash", "failed", "attached"}

CreateFromTflFileWithByteCode_AttachUnchecked(file, npuOk, attach, declared) ==
    /\ graph = "none"
    /\ ret.op = ""
    /\ declared \in (IF file \in Graphs THEN DeclaredAfterCreate(file) ELSE {EmptyMap})
    /\ attach \in NullInterpreterOutcomes
    /\ LET Return(status, msg, val) ==
               Returned("CreateFromTflFileWithByteCode", "", file, status, msg, val)
       IN  IF file = "missing" \/ ~npuOk
           THEN /\ ret' = Return(kLiteRtStatusErrorFileIO, "", <<>>)
                /\ cause' = Unexpected(kLiteRtStatusErrorFileIO, "")
                /\ UNCHANGED <<graph, signature_keys_, buffer_requirements>>
           ELSE IF BuildFromBuffer(file, "valid") = nullptr
           THEN /\ ret' = Return(kLiteRtStatusErrorFileIO, "", <<>>)
                /\ cause' = Unexpected(kLiteRtStatusErrorFileIO, "")
                /\ UNCHANGED <<graph, signature_keys_, buffer_requirements>>
           ELSE IF InterpreterBuilder(file) = nullptr /\ attach = "crash"
           THEN /\ ret' = Return(Aborted, "", <<>>)
                /\ cause' = Unexpected(kLiteRtStatusErrorRuntimeFailure, "")
                /\ UNCHANGED <<graph, signature_keys_, buffer_requirements>>
           ELSE /\ ret' = Return(kLiteRtStatusOk, "", <<"runtime">>)
                /\ cause' = IF InterpreterBuilder(file) = nullptr
                            THEN Unexpected(kLiteRtStatusErrorRuntimeFailure, "")
                            ELSE IF attach = "failed" THEN Unexpected(kTfLiteError, "")
                            ELSE ExpectedVoid
                /\ graph' = file
                /\ signature_keys_' = Initialize(file)
                /\ buffer_requirements' = declared
    /\ UNCHANGED <<signature_runners_, dangling_keys, cacheVars, wireVars, bufVars, call, observed, asked,
                   names_seen, repeated>>

\* The value the second factory returns, and the CompiledModel it made (lines
\* 95-137): the model and the byte code are read into one buffer, the model is
\* built from it, Initialize() is called and its status not looked at, and the
\* dispatch delegate is applied to interp_.  `attach` is what
\* ModifyGraphWithDelegate does ("attached", "failed"; with a null interp_ any
\* of NullInterpreterOutcomes), `declared` what the delegate declares to the
\* buffer context when it is applied.  `cause` keeps the first failure met.
CreateFromTflFileWithByteCode(file, npuOk, attach, declared) ==
    /\ graph = "none"
    /\ ret.op = ""
    /\ declared \in (IF file \in Graphs THEN DeclaredAfterCreate(file) ELSE {EmptyMap})
    /\ attach \in NullInterpreterOutcomes
    /\ LET Return(status, msg, val) ==
               Returned("CreateFromTflFileWithByteCode", "", file, status, msg, val)
       IN  IF file = "missing" \/ ~npuOk
           THEN /\ ret' = Return(kLiteRtStatusErrorFileIO, "", <<>>)
                /\ cause' = Unexpected(kLiteRtStatusErrorFileIO, "")
                /\ UNCHANGED <<graph, signature_keys_, buffer_requirements>>
           ELSE IF BuildFromBuffer(file, "valid") = nullptr
           THEN /\ ret' = Return(kLiteRtStatusErrorFileIO, "", <<>>)
                /\ cause' = Unexpected(kLiteRtStatusErrorFileIO, "")
                /\ UNCHANGED <<graph, signature_keys_, buffer_requirements>>
           ELSE IF InterpreterBuilder(file) = nullptr /\ attach = "crash"
           THEN /\ ret' = Return(Aborted, "", <<>>)
                /\ cause' = Unexpected(kLiteRtStatusErrorRuntimeFailure, "")
                /\ UNCHANGED <<graph, signature_keys_, buffer_requirements>>
           ELSE IF attach = "failed"
           THEN /\ ret' = Return(kLiteRtStatusErrorRuntimeFailure,
                                 "Failed to modify graph with delegate", <<>>)
                /\ cause' = IF InterpreterBuilder(file) = nullptr
                            THEN Unexpected(kLiteRtStatusErrorRuntimeFailure, "")
                            ELSE Unexpected(kTfLiteError, "")
                /\ UNCHANGED <<graph, signature_keys_, buffer_requirements>>
           ELSE /\ ret' = Return(kLiteRtStatusOk, "", <<"runtime">>)
                /\ cause' = IF InterpreterBuilder(file) = nullptr
                            THEN Unexpected(kLiteRtStatusErrorRuntimeFailure, "")
                            ELSE ExpectedVoid
                /\ graph' = file
                /\ signature_keys_' = Initialize(file)
                /\ buffer_requirements' = declared
    /\ UNCHANGED <<signature_runners_, dangling_keys, cacheVars, wireVars, bufVars, call, observed, asked,
                   names_seen, repeated>>

\* GetSignatures of the CompiledModel the factory returned.
GetSignatures ==
    /\ graph # "none"
    /\ Callable
    /\ ret' = Returned("GetSignatures", "", "", kLiteRtStatusOk, "", signature_keys_)
    /\ asked' = {}
    /\ cause' = ExpectedVoid
    /\ repeated' = FALSE
    /\ UNCHANGED <<modelVars, signature_runners_, dangling_keys, cacheVars, wireVars, bufVars, call,
                   observed, names_seen>>

\* The factory, then the instance asked for its signatures between queries.
NextFactory ==
    \/ \E file \in Files, alloc \in {nullptr, "invalid", "valid"} :
            CreateFromTflFile(file, alloc)
    \/ \E file \in Files, npuOk \in BOOLEAN, attach \in NullInterpreterOutcomes,
          declared \in UNION {DeclaredAfterCreate(g) : g \in Graphs} :
            CreateFromTflFileWithByteCode(file, npuOk, attach, declared)
    \/ GetSignatures
    \/ \E key \in Keys : graph \in Graphs /\ GetInputNames(key)
    \/ \E key \in Keys, name \in Names, convertOk \in BOOLEAN :
            graph \in Graphs /\ GetOutputTensorType(key, name, convertOk)
    \/ \E key \in Keys, name \in Names :
            graph \in Graphs /\ GetInputBufferRequirements(key, name, TRUE)

SpecFactory == InitFactory /\ [][NextFactory]_vars

\* ExternalLiteRtBufferContext::RegisterBufferRequirement: a delegate kernel
\* declares a requirement for a tensor of the graph that has none declared,
\* at any time between the operations.
RegisterBufferRequirement(tensor) ==
    /\ Callable
    /\ tensor \in GraphTensors(graph) \ DOMAIN buffer_requirements
    /\ buffer_requirements' = Put(buffer_requirements, tensor, DeclaredRequirement(tensor))
    /\ UNCHANGED <<graph, signature_keys_, signature_runners_, dangling_keys, cacheVars, wireVars, bufVars,
                   call, retVars>>

\* The negotiation with a collaborator that declares while the model is used.
NextDecl ==
    \/ \E key \in Keys, name \in Names, createOk \in BOOLEAN :
            GetInputBufferRequirements(key, name, createOk)
    \/ \E key \in Keys, name \in Names, createOk \in BOOLEAN :
            GetOutputBufferRequirements(key, name, createOk)
    \/ \E tensor \in Tensors : RegisterBufferRequirement(tensor)

SpecDecl == Init /\ [][NextDecl]_vars

\* ================================================================ properties
\* A call of thread t made custom allocation / registration m[tensor].
MadeByCall(m, tensor, t) == tensor \in DOMAIN m /\ m[tensor].by = t /\ m[tensor].cur

\* The call wired nothing and ran nothing.
NothingDone(t) ==
    LET c == call[t] IN
    /\ c.locks = 0 /\ c.installs = {} /\ c.regs = {}
    /\ \A tensor \in Tensors :
          /\ ~MadeByCall(custom_allocation, tensor, t)
          /\ ~MadeByCall(registered_tensor_buffers, tensor, t)
    /\ c.allocs = 0 /\ c.execs = 0

SizesDiffer(c) ==
    \/ c.nins # Len(input_names(c.runner))
    \/ c.nouts # Len(output_names(c.runner))

\* C1: an Invoke whose runner is found but whose input list or output list has
\* not the declared length returns RuntimeFailure; the call took no mapped
\* view, installed no custom allocation, registered no buffer, called neither
\* AllocateTensors nor Invoke on the runner, and left every buffer's storage as
\* it was at entry.
C1_SizeMismatch ==
    \A t \in Threads :
        LET c == call[t] IN
        (c.pc = "done" /\ c.runner # nullptr /\ SizesDiffer(c))
            => /\ c.result.status = kLiteRtStatusErrorRuntimeFailure
               /\ NothingDone(t)
               /\ mem = c.mem0

\* An output list that is too long for a runner that was found, the input
\* list being right, after an earlier call wrote another output.
C1_Witness ==
    \E t \in Threads :
        /\ call[t].pc = "done" /\ call[t].runner = "placeholder"
        /\ call[t].nins = 2 /\ call[t].nouts = 2
        /\ mem["h3"] # ZeroData

\* C2: an Invoke for a key whose runner is null returns NotFound; the call
\* wired nothing and called neither AllocateTensors nor Invoke, whatever the
\* lengths of the two lists.
C2_RunnerNotFound ==
    \A t \in Threads :
        LET c == call[t] IN
        (c.pc = "done" /\ c.runner = nullptr)
            => /\ c.result.status = kLiteRtStatusErrorNotFound
               /\ NothingDone(t)

\* An unknown key with lists of the lengths the graph's only runner declares.
C2_Witness ==
    \E t \in Threads :
        /\ call[t].pc = "done" /\ call[t].runner = nullptr
        /\ call[t].key = "s2" /\ graph = "simple"
        /\ call[t].nins = 2 /\ call[t].nouts = 1

\* The positions of the inputs / outputs the call has wired so far.
WiredInputs(c) ==
    IF c.pc = "inputs" THEN 1..(c.i - 1)
    ELSE IF c.pc \in {"outputs", "allocate", "invoke"} THEN 1..Len(input_names(c.runner))
    ELSE {}

WiredOutputs(c) ==
    IF c.pc = "outputs" THEN 1..(c.i - 1)
    ELSE IF c.pc \in {"allocate", "invoke"} THEN 1..Len(output_names(c.runner))
    ELSE {}

\* The rule of the two paths for one tensor and the caller's buffer for it.
WiredByType(t, tensor, buf) ==
    IF BufferType(buf) = kLiteRtTensorBufferTypeHostMemory
    THEN /\ MadeByCall(custom_allocation, tensor, t)
         /\ custom_allocation[tensor].addr = buf
         /\ ~MadeByCall(registered_tensor_buffers, tensor, t)
    ELSE /\ MadeByCall(registered_tensor_buffers, tensor, t)
         /\ registered_tensor_buffers[tensor].buf = buf
         /\ ~MadeByCall(custom_allocation, tensor, t)

\* C3: while Invoke wires, every input tensor and every output tensor wired so
\* far follows the rule of its buffer's type: a host-memory buffer's address is
\* the tensor's custom allocation, made by this call, and the call registered
\* nothing for the tensor; any other buffer is registered for the tensor by
\* this call, and the call installed no custom allocation for it.
C3_WiringByType ==
    \A t \in Threads :
        LET c == call[t] IN
        /\ \A j \in WiredInputs(c) :
              WiredByType(t, input_tensor(c.runner, input_names(c.runner)[j]), c.ins[j])
        /\ \A j \in WiredOutputs(c) :
              WiredByType(t, output_tensor(c.runner, output_names(c.runner)[j]), c.outs[j])

\* Everything wired: a host-memory input beside a registered input, and a
\* registered output.
C3_Witness ==
    \E t \in Threads :
        /\ call[t].pc = "allocate"
        /\ call[t].ins = <<"h1", "a1">> /\ call[t].outs = <<"a2">>

\* C4: when AllocateTensors fails, Invoke returns RuntimeFailure with the
\* message of the allocation, which is not the message of a failed execution,
\* and runner->Invoke() is not called.
C4_AllocateFailure ==
    \A t \in Threads :
        LET c == call[t] IN
        c.allocated = "failed"
            => /\ c.pc = "done"
               /\ c.result = Unexpected(kLiteRtStatusErrorRuntimeFailure,
                                         "Failed to allocate tensors")
               /\ c.result.msg # "Failed to invoke"
               /\ c.execs = 0 /\ c.executed = ""

C4_Witness ==
    \E t \in Threads : call[t].allocated = "failed" /\ call[t].installs # {}

\* Every tensor of the runner was wired by the call.
AllWired(c) ==
    c.installs \cup c.regs =
        Range(input_names(c.runner)) \cup Range(output_names(c.runner))

RunnerTensors(r) == Range(input_names(r)) \cup Range(output_names(r))

\* C6: when runner->Invoke() is about to be called, every custom allocation
\* and every registration in effect for a tensor of the runner was made by
\* this call; none is left from an earlier call.
C6_NoWiringCarriedOver ==
    \A t \in Threads :
        call[t].pc = "invoke"
            => \A tensor \in RunnerTensors(call[t].runner) :
                  /\ tensor \in DOMAIN custom_allocation
                        => MadeByCall(custom_allocation, tensor, t)
                  /\ tensor \in DOMAIN registered_tensor_buffers
                        => MadeByCall(registered_tensor_buffers, tensor, t)

\* C7: when runner->Invoke() is about to be called, the custom allocation of
\* every input tensor whose buffer is host memory is the address of that
\* buffer, and the storage there, which is what the runner reads for the
\* tensor, holds the data the caller last copied into the buffer.
C7_WrittenDataIsRead ==
    \A t \in Threads :
        LET c == call[t] IN
        c.pc = "invoke"
            => \A j \in 1..Len(c.ins) :
                  LET tensor == input_tensor(c.runner, input_names(c.runner)[j]) IN
                  BufferType(c.ins[j]) = kLiteRtTensorBufferTypeHostMemory
                      => /\ tensor \in DOMAIN custom_allocation
                         /\ custom_allocation[tensor].addr = c.ins[j]
                         /\ mem[custom_allocation[tensor].addr] = written[c.ins[j]]
                         /\ \A arena \in ArenaData :
                               TensorData(tensor, arena) = written[c.ins[j]]

\* The two inputs hold different data, the second was refilled after an
\* earlier call had read it.
C7_Witness ==
    \E t \in Threads :
        /\ call[t].pc = "invoke" /\ call[t].ins = <<"h1", "h2">>
        /\ written["h1"] = kTestInput0Tensor /\ written["h2"] = kTestInput1Tensor
        /\ mem["h3"] = <<2, 4>>

\* A call on a model made by CreateFromTflFile (no delegate declared a
\* requirement) with host-memory buffers, as CreateInputBuffers and
\* CreateOutputBuffers return them for it.
TestCall(c) ==
    /\ DOMAIN buffer_requirements = {}
    /\ c.runner = "placeholder"
    /\ \A j \in 1..Len(c.ins) : BufferType(c.ins[j]) = kLiteRtTensorBufferTypeHostMemory
    /\ \A j \in 1..Len(c.outs) : BufferType(c.outs[j]) = kLiteRtTensorBufferTypeHostMemory

\* C8: on the two-input add graph loaded by CreateFromTflFile, a successful
\* Invoke with host-memory buffers leaves in the output buffer, at each
\* position, the sum of the two input buffers at that position.
C8_EndToEndAdd ==
    [][\A t \in Threads :
          (/\ call[t].pc = "invoke" /\ call'[t].pc = "done"
           /\ call'[t].result.status = kLiteRtStatusOk
           /\ TestCall(call[t]))
              => mem'[call[t].outs[1]] =
                    [k \in 1..NumElements |->
                        mem[call[t].ins[1]][k] + mem[call[t].ins[2]][k]]]_vars

\* The test: inputs {1, 2} and {10, 20}, output {11, 22}.
C8_Witness ==
    \E t \in Threads :
        /\ call[t].pc = "done" /\ call[t].result.status = kLiteRtStatusOk
        /\ DOMAIN buffer_requirements = {}
        /\ call[t].mem0["h1"] = kTestInput0Tensor /\ call[t].mem0["h2"] = kTestInput1Tensor
        /\ call[t].mem0["h3"] # kTestOutputTensor
        /\ mem["h3"] = kTestOutputTensor

\* The last operation returned a requirement for a tensor.
ReturnedRequirement ==
    /\ ret.op \in {"GetInputBufferRequirements", "GetOutputBufferRequirements"}
    /\ ret.status = kLiteRtStatusOk

C10_CachedObjectReturned ==
    [][\A tensor \in DOMAIN cpu_buffer_requirements_ :
          /\ cpu_buffer_requirements_'[tensor] = cpu_buffer_requirements_[tensor]
          /\ (ReturnedRequirement' /\ ret'.name = tensor)
                => ret'.val[1] = cpu_buffer_requirements_[tensor]]_vars

\* C11: in every state, no tensor has both a requirement declared with the
\* buffer context and a synthesized requirement in cpu_buffer_requirements_,
\* also when the declaration comes after the tensor was queried.
C11_AtMostOneRequirement ==
    \A tensor \in Tensors :
        ~(tensor \in DOMAIN buffer_requirements /\ tensor \in DOMAIN cpu_buffer_requirements_)

\* C12: a successful query for a tensor the buffer context declared nothing
\* for returns the single type host memory and the tensor's byte length, and
\* that requirement is the one stored under the tensor.
C12_SynthesizedWhenUndeclared ==
    (ReturnedRequirement /\ ret.name \notin DOMAIN buffer_requirements)
        => /\ ret.val[1].types = <<kLiteRtTensorBufferTypeHostMemory>>
           /\ ret.val[1].size = TensorBytes(ret.name)
           /\ ret.name \in DOMAIN cpu_buffer_requirements_
           /\ cpu_buffer_requirements_[ret.name] = ret.val[1]

\* An output queried on a model whose delegate declared for the inputs only.
C12_Witness ==
    /\ ReturnedRequirement
    /\ ret.op = "GetOutputBufferRequirements"
    /\ DOMAIN buffer_requirements # {}
    /\ ret.name \notin DOMAIN buffer_requirements
    /\ cpu_buffer_requirements_[ret.name] = ret.val[1]

\* The direction an operation is about.
DirOf(op) ==
    IF op \in {"GetInputBufferRequirements", "GetInputTensorType", "CreateInputBuffers",
               "GetInputNames"}
    THEN "input" ELSE "output"

TensorQueries ==
    {"GetInputBufferRequirements", "GetOutputBufferRequirements",
     "GetInputTensorType", "GetOutputTensorType"}

\* The key of a returned value has no runner, or the runner has no tensor of
\* the name in the operation's direction.
Unresolved(r) ==
    \/ GetSignatureRunner(r.key) = nullptr
    \/ TensorOf(DirOf(r.op), GetSignatureRunner(r.key), r.name) = nullptr

\* C13: a requirement or tensor type query whose key has no runner, or whose
\* runner has no tensor of the name in that direction, returns NotFound,
\* leaves cpu_buffer_requirements_ as it was and does not ask the buffer
\* context.
C13_UnresolvedIsNotFound ==
    [][(ret'.op \in TensorQueries /\ Unresolved(ret'))
          => /\ ret'.status = kLiteRtStatusErrorNotFound
             /\ cpu_buffer_requirements_' = cpu_buffer_requirements_
             /\ nextReq' = nextReq
             /\ asked' = {}]_vars

\* A type query for a name the runner lacks, after requirements were stored.
C13_Witness ==
    /\ ret.op = "GetOutputTensorType"
    /\ GetSignatureRunner(ret.key) # nullptr
    /\ Unresolved(ret)
    /\ ret.status = kLiteRtStatusErrorNotFound
    /\ cpu_buffer_requirements_ # EmptyMap

CreateOps == {"CreateInputBuffers", "CreateOutputBuffers"}

\* The names the runner of a returned value declares in its direction.
DeclaredNames(r) ==
    IF DirOf(r.op) = "input" THEN input_names(GetSignatureRunner(r.key))
                             ELSE output_names(GetSignatureRunner(r.key))

\* The requirement negotiated for a tensor: the declared one, else the stored.
Negotiated(tensor) ==
    IF tensor \in DOMAIN buffer_requirements THEN buffer_requirements[tensor]
                                             ELSE cpu_buffer_requirements_[tensor]

\* C14: a successful CreateInputBuffers / CreateOutputBuffers for a key with a
\* runner returns one buffer per declared name, in order; the i-th has the
\* first supported type and the size of the i-th tensor's negotiated
\* requirement and the tensor's type.
C14_OneBufferPerName ==
    (ret.op \in CreateOps /\ ret.status = kLiteRtStatusOk
        /\ GetSignatureRunner(ret.key) # nullptr)
        => /\ Len(ret.val) = Len(DeclaredNames(ret))
           /\ \A i \in 1..Len(ret.val) :
                 /\ ret.val[i].type = Negotiated(DeclaredNames(ret)[i]).types[1]
                 /\ ret.val[i].size = Negotiated(DeclaredNames(ret)[i]).size
                 /\ ret.val[i].tensor_type = RankedTensorType(DeclaredNames(ret)[i])

\* Two input buffers returned, of the accelerator type the delegate declared.
C14_Witness ==
    /\ ret.op = "CreateInputBuffers"
    /\ ret.status = kLiteRtStatusOk
    /\ Len(ret.val) = 2
    /\ ret.val[2].type = kLiteRtTensorBufferTypeAhwb

\* C15: when a callee fails for a tensor, CreateInputBuffers /
\* CreateOutputBuffers returns an error and no list, and the error is the
\* callee's, the first met, with its kind and its message.
C15_FirstErrorSurfaced ==
    (ret.op \in CreateOps /\ cause.status # kLiteRtStatusOk)
        => /\ ret.status = cause.status
           /\ ret.msg = cause.msg
           /\ ret.val = <<>>

\* C16: a successful CreateInputBuffers / CreateOutputBuffers right after a
\* successful one of the same operation and key returns a list of the same
\* length, with the same buffer type and size at each position.
C16_CreateDeterministic ==
    [][repeated'
          => /\ Len(ret'.val) = Len(ret.val)
             /\ \A i \in 1..Len(ret.val) :
                   /\ ret'.val[i].type = ret.val[i].type
                   /\ ret'.val[i].size = ret.val[i].size]_vars

\* A second list after a first, of buffers with synthesized requirements.
C16_Witness ==
    /\ repeated
    /\ ret.val # <<>>
    /\ ret.val[1].type = kLiteRtTensorBufferTypeHostMemory
    /\ nextReq > 2

\* C17: CreateInputBuffers / CreateOutputBuffers with a key that has no
\* runner return NotFound.
C17_UnknownKeyIsNotFound ==
    (ret.op \in CreateOps /\ GetSignatureRunner(ret.key) = nullptr)
        => ret.status = kLiteRtStatusErrorNotFound

\* C18: GetInputNames and GetOutputNames return, for a key, the list their
\* first call for the key returned, whatever was called in between.
C18_NamesStable ==
    ret.op \in {"GetInputNames", "GetOutputNames"}
        => ret.val = names_seen[<<DirOf(ret.op), ret.key>>].names

\* The input names asked for again, with tensors wired by an Invoke and
\* requirements stored.
C18_Witness ==
    /\ ret.op = "GetInputNames"
    /\ ret.val # <<>>
    /\ names_seen[<<"input", ret.key>>].again
    /\ custom_allocation # EmptyMap
    /\ cpu_buffer_requirements_ # EmptyMap

\* The signature keys the graph of a model file declares.
DeclaredKeys(file) == IF file = "unbuildable" THEN <<>> ELSE EngineSignatureKeys(file)

\* C19: once the factory returned a CompiledModel, GetSignatures returns the
\* default key alone when the graph declares no signature key and the graph's
\* keys in the graph's order otherwise, and the list never changes.
C19_EntryPoints ==
    (graph # "none")
        => signature_keys_ = IF DeclaredKeys(graph) = <<>> THEN <<kDefaultSignatureKey>>
                                                            ELSE DeclaredKeys(graph)

\* C20: CreateFromTflFile of a file that cannot be read, or whose bytes are
\* no model, returns a FileIO error and no instance.
C20_FileIO ==
    (ret.op = "CreateFromTflFile" /\ ret.name \in {"missing", "malformed"})
        => /\ ret.status = kLiteRtStatusErrorFileIO
           /\ ret.val = <<>>
           /\ graph = "none"

\* The factory called for bytes that are no model.
C20_Witness ==
    /\ ret.op = "CreateFromTflFile"
    /\ ret.name = "malformed"
    /\ ret.status = kLiteRtStatusErrorFileIO

Factories == {"CreateFromTflFile", "CreateFromTflFileWithByteCode"}

\* C21: a factory called for a model whose interpreter cannot be built returns
\* RuntimeFailure and no CompiledModel.
C21_EngineBuildFailure ==
    (ret.op \in Factories /\ ret.name = "unbuildable")
        => /\ ret.status = kLiteRtStatusErrorRuntimeFailure
           /\ ret.val = <<>>
           /\ graph = "none"

\* C22: when ModifyGraphWithDelegate fails on the interpreter,
\* CreateFromTflFileWithByteCode returns RuntimeFailure with its message and
\* no CompiledModel.
C22_DelegateAttachFailure ==
    (ret.op = "CreateFromTflFileWithByteCode" /\ cause.status = kTfLiteError)
        => /\ ret.status = kLiteRtStatusErrorRuntimeFailure
           /\ ret.msg = "Failed to modify graph with delegate"
           /\ ret.val = <<>>
           /\ graph = "none"

\* The delegate failed to attach to the interpreter of a well-formed model.
C22_Witness ==
    /\ ret.op = "CreateFromTflFileWithByteCode"
    /\ ret.name \in Graphs
    /\ cause.status = kTfLiteError
    /\ ret.status = kLiteRtStatusErrorRuntimeFailure

\* The stage of the lifecycle the CompiledModel is in: no instance, the model
\* loaded but no interpreter, or interpreter, buffer context and keys ready.
Lifecycle ==
    IF graph = "none" THEN "Uninitialized"
    ELSE IF InterpreterBuilder(graph) = nullptr \/ signature_keys_ = <<>> THEN "Loaded"
    ELSE "Ready"

LifecycleRank(stage) ==
    CASE stage = "Uninitialized" -> 0 [] stage = "Loaded" -> 1 [] OTHER -> 3

\* C23: no step moves the lifecycle back, a construction in which a step
\* failed does not reach Ready, and every CompiledModel a factory hands to
\* the caller is Ready.
C23_LifecycleMonotone ==
    [][/\ LifecycleRank(Lifecycle') >= LifecycleRank(Lifecycle)
       /\ (ret'.op \in Factories /\ ret'.status # kLiteRtStatusOk) => Lifecycle' # "Ready"
       /\ (ret'.op \in Factories /\ ret'.val # <<>>) => Lifecycle' = "Ready"]_vars

\* The names asked for with keys whose strings the caller releases in between.
NextKeys ==
    \/ \E key \in Keys : GetInputNames(key)
    \/ \E key \in Keys : GetOutputNames(key)
    \/ \E key \in Keys : ReleaseKey(key)
    \/ \E key \in Keys, lookup \in DanglingLookups : GetInputNamesAfterRelease(key, lookup)

SpecKeys == Init /\ [][NextKeys]_vars

\* The entries the table holds for a key, each made by one call of the
\* interpreter's GetSignatureRunner.
EntriesFor(key) == (IF key \in DOMAIN signature_runners_ THEN 1 ELSE 0) + Dangling(key)

\* C25: the interpreter is asked for the runner of a key at most once and the
\* table never holds more than one entry for a name.
C25_GetOrCreate == \A key \in Keys : EntriesFor(key) <= 1

\* Invoke on the test's model with the mapped views taken and released step
\* by step, and a party that fills the input buffers during the call.
NextLock ==
    \/ \E t \in Threads, ins \in {<<"h1", "h2">>, <<"h1", "a1">>}, outs \in {<<"h3">>, <<"a2">>} :
            InvokeBegin(t, kDefaultSignatureKey, ins, outs)
    \/ \E t \in Threads : MapBuffer(t)
    \/ \E t \in Threads : InstallView(t)
    \/ \E t \in Threads, registerOk \in BOOLEAN : RegisterInput(t, registerOk)
    \/ \E t \in Threads, registerOk \in BOOLEAN : RegisterOutput(t, registerOk)
    \/ \E t \in Threads, ok \in BOOLEAN : AllocateTensors(t, ok)
    \/ \E t \in Threads, ok \in BOOLEAN : Execute(t, ok, ZeroData)
    \/ \E t \in Threads : InvokeReturn(t)
    \/ \E b \in TestInputBuffers, data \in InputData : ConcurrentFill(b, data)

SpecLock == InitData /\ [][NextLock]_vars

\* C24: when Invoke has returned, with success or with an error, it holds no
\* mapped view and none of the buffers is locked.
C24_ViewsReleased ==
    \A t \in Threads :
        call[t].pc \in {"done", "idle"}
            => /\ call[t].view = ""
               /\ \A b \in Buffers : locked[b] = ""

\* An error during wiring, after a host-memory buffer was mapped.
C24_Witness ==
    \E t \in Threads :
        /\ call[t].pc = "done"
        /\ call[t].result.msg = "Failed to register input tensor buffer"
        /\ call[t].locks = 1
        /\ "arg0" \in call[t].installs

\* The sum of the two host-memory inputs as they were at the entry of the call.
SumAtEntry(c) == [k \in 1..NumElements |-> c.mem0["h1"][k] + c.mem0["h2"][k]]

\* C29: while AllocateTensors and runner->Invoke() are due, the call holds no
\* mapped view and no buffer is locked; an execution on the host-memory
\* buffers h1, h2 and h3 that finds the inputs as they were at entry leaves
\* their sum in the output.
C29_NoLockDuringExecution ==
    [][\A t \in Threads :
          /\ call'[t].pc \in {"allocate", "invoke"}
                => /\ call'[t].view = ""
                   /\ \A b \in Buffers : locked'[b] = ""
          /\ (/\ call[t].pc = "invoke" /\ call'[t].executed = "ok"
              /\ call[t].installs = {"arg0", "arg1", "tfl.add"}
              /\ DOMAIN buffer_requirements = {}
              /\ mem["h1"] = call[t].mem0["h1"] /\ mem["h2"] = call[t].mem0["h2"])
                => mem'["h3"] = SumAtEntry(call[t])]_vars

\* The inputs were filled by the other party after they were wired: the
\* output is not the sum of what the caller passed.
C29_Witness ==
    \E t \in Threads :
        /\ call[t].pc = "done" /\ call[t].executed = "ok"
        /\ call[t].installs = {"arg0", "arg1", "tfl.add"}
        /\ DOMAIN buffer_requirements = {}
        /\ mem["h1"] # call[t].mem0["h1"]
        /\ mem["h3"] # SumAtEntry(call[t])

\* C26: the runner kept for the default key is the one the interpreter gives
\* for a null key, the placeholder of a graph without signatures and the first
\* signature of a graph with some, not a runner named by the key.
C26_DefaultKeyIsUnnamed ==
    kDefaultSignatureKey \in DOMAIN signature_runners_
        => /\ signature_runners_[kDefaultSignatureKey] = EngineGetSignatureRunner(graph, nullptr)
           /\ signature_runners_[kDefaultSignatureKey] # nullptr
           /\ (ret.key = kDefaultSignatureKey => ret.msg # "Failed to get signature runner")

\* The default key used on the graph that declares s1 and s2.
C26_Witness ==
    /\ graph = "signed"
    /\ EngineGetSignatureRunner(graph, kDefaultSignatureKey) = nullptr
    /\ kDefaultSignatureKey \in DOMAIN signature_runners_
    /\ signature_runners_[kDefaultSignatureKey] = "s1"
    /\ ret.key = kDefaultSignatureKey /\ ret.status = kLiteRtStatusOk

\* The tensors of a runner in the order Invoke wires them.
WiringOrder(r) == input_names(r) \o output_names(r)

Wired(c) == c.installs \cup c.regs

\* C27: a call wires one tensor at a time, the inputs in the declared order
\* and then the outputs in the declared order; AllocateTensors is called once
\* and only with every tensor wired; runner->Invoke() is called at most once
\* and only after AllocateTensors succeeded.
C27_StepOrder ==
    [][\A t \in Threads :
          LET c == call[t]
              d == call'[t]
          IN  /\ (Wired(d) # Wired(c) /\ Wired(d) # {})
                    => /\ c.allocs = 0 /\ c.execs = 0
                       /\ Cardinality(Wired(c)) < Len(WiringOrder(c.runner))
                       /\ Wired(d) = Wired(c) \cup
                              {WiringOrder(c.runner)[Cardinality(Wired(c)) + 1]}
              /\ (d.allocs # c.allocs /\ d.allocs # 0)
                    => /\ c.allocs = 0 /\ d.allocs = 1 /\ c.execs = 0
                       /\ Wired(c) = Range(WiringOrder(c.runner))
              /\ (d.execs # c.execs /\ d.execs # 0)
                    => /\ c.execs = 0 /\ d.execs = 1
                       /\ c.allocs = 1 /\ c.allocated = "ok"]_vars

\* A call that ran, on two inputs of different kinds and an output.
C27_Witness ==
    \E t \in Threads :
        /\ call[t].pc = "done" /\ call[t].executed = "ok"
        /\ call[t].installs = {"arg0"} /\ call[t].regs = {"arg1", "tfl.add"}

\* C28: a declared requirement is never changed, and a successful query for a
\* tensor with a declared requirement returns that requirement and leaves
\* cpu_buffer_requirements_ as it was.
C28_DeclaredIsReturned ==
    [][/\ \A tensor \in DOMAIN buffer_requirements :
             /\ tensor \in DOMAIN buffer_requirements'
             /\ buffer_requirements'[tensor] = buffer_requirements[tensor]
       /\ (/\ buffer_requirements' = buffer_requirements
           /\ ReturnedRequirement'
           /\ ret'.name \in DOMAIN buffer_requirements)
              => /\ ret'.val[1] = buffer_requirements[ret'.name]
                 /\ ret'.val[1].types[1] # kLiteRtTensorBufferTypeHostMemory
                 /\ cpu_buffer_requirements_' = cpu_buffer_requirements_
                 /\ nextReq' = nextReq]_vars

\* The declared requirement returned for a tensor that had a host-memory
\* requirement stored before the declaration.
C28_Witness ==
    /\ ReturnedRequirement
    /\ ret.name \in DOMAIN buffer_requirements
    /\ ret.name \in DOMAIN cpu_buffer_requirements_
    /\ ret.val[1] = buffer_requirements[ret.name]

\* Two threads of the caller, each in a call of Invoke on the default key of
\* the test's model: the first with h1 for both inputs and h3 for the output,
\* the second with h2 and h4.
ConcurrentThreads == {1, 2}

InitConcurrent ==
    /\ graph = "simple"
    /\ signature_keys_ = Initialize(graph)
    /\ buffer_requirements = EmptyMap
    /\ registered_tensor_buffers = EmptyMap
    /\ signature_runners_ = EmptyMap
    /\ dangling_keys = EmptyMap
    /\ cpu_buffer_requirements_ = EmptyMap
    /\ nextReq = 1
    /\ custom_allocation = EmptyMap
    /\ mem = [b \in Buffers |-> IF b = "h1" THEN kTestInput0Tensor
                                ELSE IF b = "h2" THEN kTestInput1Tensor ELSE ZeroData]
    /\ locked = [b \in Buffers |-> ""]
    /\ written = mem
    /\ call = [t \in ConcurrentThreads |-> IdleCall]
    /\ observed = EmptyMap
    /\ asked = {}
    /\ cause = ExpectedVoid
    /\ names_seen = EmptyMap
    /\ repeated = FALSE
    /\ ret = NoRet

NextConcurrent ==
    \/ InvokeBegin(1, kDefaultSignatureKey, <<"h1", "h1">>, <<"h3">>)
    \/ InvokeBegin(2, kDefaultSignatureKey, <<"h2", "h2">>, <<"h4">>)
    \/ \E t \in ConcurrentThreads : WireInput(t, TRUE)
    \/ \E t \in ConcurrentThreads : WireOutput(t, TRUE)
    \/ \E t \in ConcurrentThreads, ok \in BOOLEAN : AllocateTensors(t, ok)
    \/ \E t \in ConcurrentThreads, ok \in BOOLEAN : Execute(t, ok, ZeroData)
    \/ \E t \in ConcurrentThreads : InvokeReturn(t)

SpecConcurrent == InitConcurrent /\ [][NextConcurrent]_vars

\* C30: an execution of a call reads and writes the buffers of that call when
\* the wiring of every tensor of the runner is the one the call made; with
\* the wiring replaced by the other call it runs on the other call's buffers.
C30_LastWiringWins ==
    [][\A t \in ConcurrentThreads :
          (call[t].pc = "invoke" /\ call'[t].executed = "ok")
              => LET c == call[t]
                     own == \A tensor \in Range(WiringOrder(c.runner)) :
                                MadeByCall(custom_allocation, tensor, t)
                     sum(a, b) == [k \in 1..NumElements |-> mem[a][k] + mem[b][k]]
                 IN  /\ own => /\ mem'[c.outs[1]] = sum(c.ins[1], c.ins[2])
                               /\ \A b \in Buffers \ {c.outs[1]} : mem'[b] = mem[b]
                     /\ \A tensor \in Range(WiringOrder(c.runner)) :
                            tensor \in DOMAIN custom_allocation
                     /\ mem'[custom_allocation["tfl.add"].addr] =
                            sum(custom_allocation["arg0"].addr, custom_allocation["arg1"].addr)]_vars

\* The first call has run and the second has not: the sum of the second
\* call's inputs is in the second call's output buffer, and the first call's
\* output buffer is as it was.
C30_Witness ==
    /\ call[1].pc = "done" /\ call[1].executed = "ok"
    /\ call[2].execs = 0 /\ call[2].pc = "invoke"
    /\ mem["h4"] = <<20, 40>>
    /\ mem["h3"] = ZeroData

RegisterFailures ==
    {"Failed to register input tensor buffer", "Failed to register output tensor buffer"}

\* C31: the step in which RegisterTensorBuffer fails ends the call with
\* RuntimeFailure and wires nothing; the call then only returns: no tensor is
\* wired after it, AllocateTensors and runner->Invoke() are not called.
C31_RegisterFailureEndsCall ==
    [][\A t \in Threads :
          LET c == call[t]
              d == call'[t]
          IN  /\ (d.result.msg \in RegisterFailures /\ d # c /\ d.pc # "idle")
                    => /\ c.pc \in {"inputs", "outputs"}
                       /\ d.pc = "done"
                       /\ d.result.status = kLiteRtStatusErrorRuntimeFailure
                       /\ Wired(d) = Wired(c)
                       /\ UNCHANGED wireVars
                       /\ d.allocs = 0 /\ d.execs = 0
              /\ (c.result.msg \in RegisterFailures /\ d # c) => d = IdleCall]_vars

\* The registration of the output failed after both inputs were wired.
C31_Witness ==
    \E t \in Threads :
        /\ call[t].pc = "done"
        /\ call[t].result.msg = "Failed to register output tensor buffer"
        /\ call[t].installs = {"arg0"} /\ call[t].regs = {"arg1"}
        /\ "tfl.add" \notin DOMAIN registered_tensor_buffers

\* C34: every entry of signature_runners_ is a runner of the graph, none is
\* null: a key the interpreter does not know adds no entry.
C34_OnlyRunnersCached ==
    \A key \in DOMAIN signature_runners_ :
        /\ signature_runners_[key] # nullptr
        /\ signature_runners_[key] \in GraphRunners(graph)

\* Every operation of the model on the default key, between and around calls
\* of Invoke with a host-memory and an accelerator input.
NextFrame ==
    \/ GetSignatures
    \/ GetInputNames(kDefaultSignatureKey)
    \/ GetOutputNames(kDefaultSignatureKey)
    \/ \E name \in {"arg0", "x"} :
            GetInputBufferRequirements(kDefaultSignatureKey, name, TRUE)
    \/ \E name \in {"tfl.add", "y"} :
            GetOutputBufferRequirements(kDefaultSignatureKey, name, TRUE)
    \/ \E name \in {"arg0", "x"} : GetInputTensorType(kDefaultSignatureKey, name, TRUE)
    \/ \E name \in {"tfl.add", "y"} : GetOutputTensorType(kDefaultSignatureKey, name, TRUE)
    \/ CreateInputBuffers(kDefaultSignatureKey, 0, "buffer")
    \/ CreateOutputBuffers(kDefaultSignatureKey, 0, "buffer")
    \/ \E t \in Threads, ins \in {<<"h1", "a1">>, <<"a1">>} :
            InvokeBegin(t, kDefaultSignatureKey, ins, <<"h3">>)
    \/ \E t \in Threads : WireInput(t, TRUE)
    \/ \E t \in Threads : WireOutput(t, TRUE)
    \/ \E t \in Threads : AllocateTensors(t, TRUE)
    \/ \E t \in Threads : Execute(t, TRUE, ZeroData)
    \/ \E t \in Threads : InvokeReturn(t)

SpecFrame == Init /\ [][NextFrame]_vars

\* The operations that are not Invoke.
QueryOps ==
    {"GetSignatures", "GetInputNames", "GetOutputNames", "GetInputBufferRequirements",
     "GetOutputBufferRequirements", "GetInputTensorType", "GetOutputTensorType",
     "CreateInputBuffers", "CreateOutputBuffers"}

\* C35: a step that is not a step of Invoke leaves the custom allocations and
\* the registered buffers as they are, and calls neither AllocateTensors nor
\* runner->Invoke(): the history of every call is unchanged.
C35_OnlyInvokeWires ==
    [][(call' = call \/ ret' # ret)
          => /\ UNCHANGED wireVars
             /\ call' = call
             /\ mem' = mem
             /\ ret'.op \in QueryOps \cup {""}]_vars

\* A tensor type was returned while the wiring of an earlier Invoke is in
\* place, after buffers were created and requirements and names returned.
C35_Witness ==
    /\ ret.op = "GetOutputTensorType" /\ ret.status = kLiteRtStatusOk
    /\ "arg0" \in DOMAIN custom_allocation
    /\ "arg1" \in DOMAIN registered_tensor_buffers
    /\ DOMAIN names_seen # {}
    /\ DOMAIN cpu_buffer_requirements_ # {}

\* Invoke on the test's model with the mapped views taken step by step while
\* another party takes and gives back the locks of the buffers.
NextMapFail ==
    \/ \E t \in Threads : InvokeBegin(t, kDefaultSignatureKey, <<"h1", "h2">>, <<"h3">>)
    \/ \E t \in Threads : MapBuffer(t)
    \/ \E t \in Threads : InstallView(t)
    \/ \E t \in Threads, outcome \in FailedViewOutcomes : MapBufferFailed(t, outcome)
    \/ \E t \in Threads, ok \in BOOLEAN : AllocateTensors(t, ok)
    \/ \E t \in Threads, ok \in BOOLEAN : ExecuteInBounds(t, ok, ZeroData)
    \/ \E t \in Threads, outcome \in {"crash", "returns"}, data \in ArenaData :
            ExecuteWild(t, outcome, data)
    \/ \E t \in Threads : InvokeReturn(t)
    \/ \E b \in {"h1", "h2", "h3"} : ConcurrentLock(b)
    \/ \E b \in {"h1", "h2", "h3"} : ConcurrentUnlock(b)
    \/ \E b \in TestInputBuffers, data \in InputData : FillBuffer(b, data)

SpecMapFail == InitData /\ [][NextMapFail]_vars

\* C32: the step of a wiring loop at a host-memory buffer that is locked
\* elsewhere ends the call with an error: no custom allocation is installed,
\* AllocateTensors and runner->Invoke() are not called, the process goes on.
C32_FailedViewIsAnError ==
    [][\A t \in Threads :
          LET c == call[t]
              d == call'[t]
          IN  (/\ c.pc \in {"inputs", "outputs"} /\ c.view = ""
               /\ HostBufferAt(c) # "" /\ locked[HostBufferAt(c)] # ""
               /\ d # c)
                  => /\ d.pc = "done"
                     /\ d.result.status # kLiteRtStatusOk
                     /\ custom_allocation' = custom_allocation
                     /\ d.allocs = 0 /\ d.execs = 0
                     /\ Alive']_vars

\* Invoke with buffers of the test's model and a host-memory buffer of one
\* element the caller made itself.
NextSize ==
    \/ \E t \in Threads, ins \in {<<"hs", "h1">>, <<"h1", "h2">>}, outs \in {<<"h3">>, <<"hs">>} :
            InvokeBegin(t, kDefaultSignatureKey, ins, outs)
    \/ \E t \in Threads : WireInput(t, TRUE)
    \/ \E t \in Threads : WireOutput(t, TRUE)
    \/ \E t \in Threads, ok \in BOOLEAN : AllocateTensors(t, ok)
    \/ \E t \in Threads, ok \in BOOLEAN : ExecuteInBounds(t, ok, ZeroData)
    \/ \E t \in Threads, outcome \in {"crash", "returns"}, data \in ArenaData :
            ExecuteWild(t, outcome, data)
    \/ \E t \in Threads : InvokeReturn(t)
    \/ \E b \in TestInputBuffers, data \in InputData : FillBuffer(b, data)

SpecSize == InitData /\ [][NextSize]_vars

\* C33: the byte size of every custom allocation is at most the size of the
\* caller's buffer at its address.
C33_AllocationWithinBuffer ==
    \A tensor \in DOMAIN custom_allocation :
        custom_allocation[tensor].bytes <= BufferSize(custom_allocation[tensor].addr)

====
